---- MODULE Spec2Model ----
(***************************************************************************)
(* A model of the transactional execution engine of the File Garden        *)
(* backend: the `transaction!` executor of src/src/db.rs, the savepoint    *)
(* collision-retry loop used by the route handlers, and the route handlers *)
(* that run database work (api/routes/v1).                                 *)
(*                                                                         *)
(* One request is handled at a time.  The database is PostgreSQL seen      *)
(* through sqlx: a transaction works on a private copy of the committed    *)
(* state, a savepoint remembers that copy, a failed statement puts the     *)
(* transaction in the failed state until it is rolled back (to a           *)
(* savepoint), and a commit publishes the copy.  Every database round trip *)
(* may be answered by an error chosen by the environment.                  *)
(***************************************************************************)
EXTENDS Integers, Sequences, FiniteSets, TLC

\* ---------------------------------------------------------------- bounds
\* Number of distinct values a random 128-byte token can take in the model.
NumTokens == 3
\* Number of distinct values a random 8-byte user id can take in the model.
NumUserIds == 3
\* Cap on the attempts (transactions begun) of one executor invocation.
MaxAttempts == 3
\* Cap on the rerolls of one savepoint loop.
MaxRerolls == 3
\* Number of requests handled in one behaviour.
MaxRequests == 1
\* Largest identifier length N, in bytes, of the identifier specification.
MaxIdLen == 3
\* Largest length, in characters, of a text handed to from_str.
MaxTextLen == 4
\* Number of connections the database pool may hold.
MaxConns == 3
MaxInits == 2
MaxGets == 3
MaxPieces == 3
MaxHops == 2

Tokens == 1..NumTokens
UserIds == 1..NumUserIds
Emails == {"e1", "e2"}
Passwords == {"p1", "p2"}

\* SQL NULL in a user_id or email column.
Null == 0
\* SQL NULL in the code_hash column.
NullHash == <<>>

\* ---------------------------------------------------------------- errors
\* The SQLSTATE code for serialization failures.
SERIALIZATION_FAILURE == "40001"
\* SQLSTATE unique_violation and in_failed_sql_transaction.
UNIQUE_VIOLATION == "23505"
IN_FAILED_SQL_TRANSACTION == "25P02"

NoErr == [kind |-> "none", code |-> "none", constraint |-> "none"]

\* sqlx::Error::Database carrying an SQLSTATE code (or none) and the name of
\* the violated constraint (or none).
DatabaseError(code, constraint) ==
    [kind |-> "Database", code |-> code, constraint |-> constraint]

\* sqlx::Error::Io: a sqlx error that is not a database-level error.
IoError == [kind |-> "Io", code |-> "none", constraint |-> "none"]

\* Errors of another type than sqlx::Error: the random source failing, and
\* the CAPTCHA verification request failing.
RandError == [kind |-> "Rand", code |-> "none", constraint |-> "none"]
ReqwestError == [kind |-> "Reqwest", code |-> "none", constraint |-> "none"]

SerializationFailure == DatabaseError(SERIALIZATION_FAILURE, "none")

\* What the environment may answer to a round trip instead of success.
RoundTripErrors ==
    {SerializationFailure, DatabaseError("none", "none"), IoError}

\* What it may answer to an INSERT in addition: a unique constraint that is
\* not the primary key of the table.
InsertErrors ==
    RoundTripErrors \cup {DatabaseError(UNIQUE_VIOLATION, "email_key")}

\* castaway's cast!(&source, &sqlx::Error): succeeds iff S is sqlx::Error.
IsSqlxError(e) == e.kind \in {"Database", "Io"}

\* ---------------------------------------------------------- api::Error
ApiError(variant, source) == [variant |-> variant, source |-> source]
NoApiError == ApiError("none", NoErr)
ResourceNotFound == ApiError("ResourceNotFound", NoErr)
UserCredentialsWrong == ApiError("UserCredentialsWrong", NoErr)

\* impl From<sqlx::Error> for Error (and the other `?` conversions of the
\* handlers): the source is boxed into Error::Internal.
Internal(e) == ApiError("Internal", e)

\* ---------------------------------------------------------- TxError<E>
NoValue == <<>>
Unit == <<"unit">>
\* Option<Record { email }>: what UPDATE .. RETURNING email fetched.
None == <<"None">>
Some(email) == <<"Some", email>>
\* PostResponse { email, code } of the verification-code handler.
CodeResponse(email, c) == <<"PostResponse", email, c>>
TokenValue(t) == <<"token", t>>
\* The body of the 200 response of handler h: PostResponse { email } of
\* email-verification POST and users POST, PostResponse {} of the others.
PostResponse(h, email) ==
    IF h \in {"ev_post", "users_post"}
    THEN <<"PostResponse", email>>
    ELSE <<"PostResponse">>

TxOk(v) == [tag |-> "Ok", value |-> v, error |-> NoApiError]
Abort(e) == [tag |-> "Abort", value |-> NoValue, error |-> e]
Retry == [tag |-> "Retry", value |-> NoValue, error |-> NoApiError]
NoOutcome == [tag |-> "none", value |-> NoValue, error |-> NoApiError]

\* A classification that retries on every database-level error.
TxErrorFromAnyDatabaseError(source) ==
    IF IsSqlxError(source) /\ source.kind = "Database"
    THEN Retry
    ELSE Abort(Internal(source))

\* A classification that also retries on a database error without a code.
TxErrorFromMissingCode(source) ==
    IF /\ IsSqlxError(source)
       /\ source.kind = "Database"
       /\ (source.code = "none" \/ source.code = SERIALIZATION_FAILURE)
    THEN Retry
    ELSE Abort(Internal(source))

\* impl<S, E> From<S> for TxError<E>
TxErrorFrom(source) ==
    IF /\ IsSqlxError(source)
       /\ source.kind = "Database"
       /\ source.code # "none"
       /\ source.code = SERIALIZATION_FAILURE
    THEN Retry
    ELSE Abort(Internal(source))

\* ------------------------------------------------------------- crypto
\* ring::digest::digest(algorithm, data): deterministic.
SHA256 == "sha256"
digest(algorithm, data) == <<algorithm, data>>

\* hash_without_salt: SHA-256, deterministic.
hash_without_salt(bytes) == digest(SHA256, bytes)

\* A salted hash replaced by the unsalted digest.
hash_with_sha256(bytes) == digest(SHA256, bytes)

\* hash_with_salt: an Argon2 PHC string (the salt is not modelled).
hash_with_salt(bytes) == <<"argon2", bytes>>

\* auth::hash_password: an Argon2 PHC string of the password.
hash_password(password) == <<"argon2", password>>

\* All the characters that can be in a string outputted by
\* generate_short_code, and the length of such a string.
SHORT_CODE_CHARS ==
    <<"0", "1", "2", "3", "4", "5", "6", "7", "8", "9", "A", "B", "C", "D",
      "E", "F", "G", "H", "I", "J", "K", "L", "M", "N", "P", "Q", "R", "S",
      "T", "U", "V", "W", "X", "Y", "Z">>
SHORT_CODE_LENGTH == 6

\* The streams of indices `Uniform::try_from(0..SHORT_CODE_CHARS.len())
\* .sample_iter(rand::rng())` yields in the model, one element longer than
\* what generate_short_code takes: every index begins a stream, which
\* repeats it or goes on with the following indices.
SampleStreams ==
    {[i \in 1..(SHORT_CODE_LENGTH + 1) |->
         (first + (i - 1) * step) % Len(SHORT_CODE_CHARS)] :
        first \in 0..(Len(SHORT_CODE_CHARS) - 1), step \in {0, 1}}

\* A code over the full uppercase alphabet, the letter O included.
generate_short_code_with_O(samples) ==
    LET chars == SubSeq(SHORT_CODE_CHARS, 1, 24) \o <<"O">> \o
                 SubSeq(SHORT_CODE_CHARS, 26, Len(SHORT_CODE_CHARS))
    IN  [i \in 1..SHORT_CODE_LENGTH |-> chars[samples[i] + 1]]

\* generate_short_code: `.take(SHORT_CODE_LENGTH).map(|i|
\* SHORT_CODE_CHARS[i]).collect()` of the stream of indices.
generate_short_code(samples) ==
    [i \in 1..SHORT_CODE_LENGTH |-> SHORT_CODE_CHARS[samples[i] + 1]]

\* The values generate_short_code returns in the request specification:
\* the codes of two streams of indices.
Codes ==
    {generate_short_code(<<0, 1, 2, 3, 4, 5, 6>>),
     generate_short_code(<<34, 24, 23, 10, 9, 0, 1>>)}

\* A verification that accepts every secret for a well-formed hash.
verify_hash_of_any_secret(bytes, hash_phc_format) ==
    /\ Len(hash_phc_format) = 2
    /\ hash_phc_format[1] = "argon2"

\* verify_hash
verify_hash(bytes, hash_phc_format) ==
    /\ Len(hash_phc_format) = 2
    /\ hash_phc_format[1] = "argon2"
    /\ hash_phc_format[2] = bytes

\* ----------------------------------------------------------- database
\* The tables the handlers touch; a table is the set of its rows.
EmptyDb ==
    [users |-> {}, unverified_emails |-> {}, password_resets |-> {},
     sessions |-> {}]

\* The committed state the service starts the behaviour with: two verified
\* users, two pending verifications, and a pending password reset of each
\* user and a session, keyed by the hashes of tokens 1 and 2.
InitDb ==
    [users |->
        {[id |-> 1, email |-> "e1", password_hash |-> hash_with_salt("p1")],
         [id |-> 2, email |-> "e0", password_hash |-> hash_with_salt("p2")]},
     unverified_emails |->
        {[token_hash |-> hash_without_salt(1), email |-> "e2",
          user_id |-> Null, code_hash |-> NullHash],
         [token_hash |-> hash_without_salt(2), email |-> "e3",
          user_id |-> Null, code_hash |-> NullHash]},
     password_resets |->
        {[token_hash |-> hash_without_salt(1), user_id |-> 1],
         [token_hash |-> hash_without_salt(2), user_id |-> 2]},
     sessions |->
        {[token_hash |-> hash_without_salt(1), user_id |-> 1]}]

\* sqlx::Transaction: closed, or open on a private copy of the data;
\* `failed` is PostgreSQL's failed-transaction state.
NoTx == [open |-> FALSE, data |-> EmptyDb, failed |-> FALSE]
OpenTx(data) == [open |-> TRUE, data |-> data, failed |-> FALSE]

\* A nested sqlx::Transaction (SAVEPOINT): the data at the time it was taken.
NoSavepoint == [open |-> FALSE, data |-> EmptyDb]
OpenSavepoint(data) == [open |-> TRUE, data |-> data]

\* A dropped savepoint that leaves the transaction as the failed statement
\* left it (no ROLLBACK TO SAVEPOINT is issued).
DropWithoutRollback(t, s) == t

\* A rollback that discards every statement of the transaction, not only
\* those after the savepoint.
RollbackToInitialState(t, s) == [t EXCEPT !.data = InitDb, !.failed = FALSE]

\* Dropping a nested transaction that was not committed: sqlx queues
\* ROLLBACK TO SAVEPOINT, which restores the data and clears the failed state.
RollbackToSavepoint(t, s) == [t EXCEPT !.data = s.data, !.failed = FALSE]

\* A commit that publishes nothing.
CommitNothing(committed, t) == committed

\* COMMIT: publishes the transaction's data; on a failed transaction
\* PostgreSQL rolls back instead.
CommitData(committed, t) == IF t.failed THEN committed ELSE t.data

\* ------------------------------------------------------------ handlers
ExecutorHandlers ==
    {"ev_post", "pr_post", "pw_post", "sessions_post", "code_post"}
Handlers == ExecutorHandlers \cup {"users_post"}

\* The table and primary-key constraint of each handler's savepoint loop.
LoopTable(h) ==
    CASE h = "ev_post" -> "unverified_emails"
      [] h = "pr_post" -> "password_resets"
      [] h = "sessions_post" -> "sessions"
      [] OTHER -> "users"

PkeyConstraint(h) ==
    CASE h = "ev_post" -> "unverified_emails_pkey"
      [] h = "pr_post" -> "password_resets_pkey"
      [] h = "sessions_post" -> "sessions_pkey"
      [] OTHER -> "users_pkey"

\* The first statement of each unit of work.
FirstStatement(h) ==
    CASE h = "ev_post" -> "ev_select"
      [] h = "pr_post" -> "pr_select"
      [] h = "pw_post" -> "pw_delete"
      [] h = "code_post" -> "cp_update"
      [] OTHER -> "ss_select"

NoToken == 0
\* The `code` local before generate_short_code was called.
NoCode == <<>>
NullEmail == "null"
NoUser == [id |-> Null, email |-> NullEmail, password_hash |-> <<>>]
Mail(kind, to, t) == [kind |-> kind, to |-> to, token |-> t]

NoResult == [tag |-> "none", value |-> NoValue, error |-> NoApiError]
Ok(v) == [tag |-> "Ok", value |-> v, error |-> NoApiError]
Err(e) == [tag |-> "Err", value |-> NoValue, error |-> e]

\* --------------------------------------------------------------- state
VARIABLES
    db,            \* the committed database state
    pc,            \* the position of the request being handled
    req,           \* the request: handler and inputs
    nreq,          \* requests started so far
    tx,            \* the transaction of the current attempt
    sp,            \* the savepoint of the current loop iteration
    token,         \* the handler's `token` local
    user_id,       \* users POST's `user_id` local
    user,          \* the row a SELECT / DELETE .. RETURNING gave
    rerolls,       \* rerolls of the current savepoint loop
    return_value,  \* the executor closure's `return_value`
    outcome,       \* what the closure returned to the executor loop
    lastErr,       \* the error the last round trip or call raised
    result,        \* what transaction! returned to the handler
    response,      \* what the handler returned
    mails,         \* messages handed to the mailer by this request
    cookies,       \* cookies set by this request
    attempts,      \* transactions begun by this executor invocation
    invocations,   \* invocations of the unit of work by this invocation
    commits,       \* transactions committed by this request
    retries,       \* attempts of this invocation that ended in Retry
    clean,         \* the environment raised no error but key collisions
    db0,           \* the committed state when the request started
    code,          \* the verification-code handler's `code` local
    procs,         \* the concurrent requests of the concurrent specification
    call,          \* the call evaluated by the pure-function specifications
    pool           \* the database pool of the pool specification

vars ==
    <<db, pc, req, nreq, tx, sp, token, user_id, user, rerolls, return_value,
      outcome, lastErr, result, response, mails, cookies, attempts,
      invocations, commits, retries, clean, db0, code, procs, call, pool>>

\* No concurrent requests, no pure-function call, and a pool whose
\* connections are not told apart.
NoProcs == <<>>
NoCall == [fn |-> "none"]
NoPool == <<>>

NoRequest ==
    [handler |-> "none", email |-> "none", password |-> "none",
     token |-> NoToken]

\* The service before its first request.
InitRequests ==
    /\ /\ pc = "idle"
       /\ req = NoRequest
       /\ nreq = 0
       /\ tx = NoTx
       /\ sp = NoSavepoint
       /\ token = NoToken
       /\ user_id = Null
       /\ user = NoUser
       /\ rerolls = 0
       /\ return_value = NoValue
       /\ outcome = NoOutcome
       /\ lastErr = NoErr
       /\ result = NoResult
       /\ response = NoResult
       /\ mails = <<>>
       /\ cookies = <<>>
       /\ attempts = 0
       /\ invocations = 0
       /\ commits = 0
       /\ retries = 0
       /\ clean = TRUE
       /\ db0 = InitDb
       /\ code = NoCode

Init ==
    /\ db = InitDb
    /\ InitRequests
    /\ procs = NoProcs
    /\ call = NoCall
    /\ pool = NoPool

\* ----------------------------------------------------- common steps
\* The answers the environment may give to a round trip: success (NoErr) or
\* one of errs.  A failed transaction answers every statement with 25P02.
\* Serialization failures stop once MaxAttempts attempts were begun.
Answers(errs) ==
    IF tx.failed
    THEN {DatabaseError(IN_FAILED_SQL_TRANSACTION, "none")}
    ELSE {NoErr} \cup
         {e \in errs : e = SerializationFailure => attempts < MaxAttempts}

\* An error leaving the database work with `?`.  The transaction handle is
\* dropped, which rolls the transaction back.  Inside transaction! the error
\* is converted by From<S> for TxError<E> and handed to the executor loop;
\* in users POST it is converted by From<sqlx::Error> for api::Error and
\* returned by the handler.
Raise(e) ==
    /\ lastErr' = e
    /\ clean' = (clean /\ e.code = IN_FAILED_SQL_TRANSACTION)
    /\ tx' = NoTx
    /\ sp' = NoSavepoint
    /\ IF req.handler \in ExecutorHandlers
       THEN /\ outcome' = TxErrorFrom(e)
            /\ pc' = "loop"
            /\ UNCHANGED response
       ELSE /\ response' = Err(Internal(e))
            /\ pc' = "done"
            /\ UNCHANGED outcome

\* A round trip that succeeded: the work goes on at `next`.
Proceed(next) ==
    /\ lastErr' = NoErr
    /\ pc' = next
    /\ UNCHANGED <<clean, outcome, response>>

\* The unit of work returning Ok(value) to the executor closure, which keeps
\* it in return_value and goes on to commit.
ReturnOk(value) ==
    /\ return_value' = value
    /\ Proceed("commit")

\* A unit of work that answers a business failure with TxError::Retry.
ReturnRetry(e) ==
    /\ lastErr' = NoErr
    /\ outcome' = Retry
    /\ tx' = NoTx
    /\ sp' = NoSavepoint
    /\ pc' = "loop"
    /\ UNCHANGED <<clean, response>>

\* The unit of work returning Err(TxError::Abort(e)) itself: the closure
\* returns it, dropping the transaction.
ReturnAbort(e) ==
    /\ lastErr' = NoErr
    /\ outcome' = Abort(e)
    /\ tx' = NoTx
    /\ sp' = NoSavepoint
    /\ pc' = "loop"
    /\ UNCHANGED <<clean, response>>

\* A request arrives.  The CAPTCHA check of email-verification POST and
\* password-reset POST comes before any database work.
StartRequest(h, email, password, t, captcha) ==
    /\ UNCHANGED <<procs, pool>>
    /\ pc \in {"idle", "done"}
    /\ nreq < MaxRequests
    /\ nreq' = nreq + 1
    /\ req' = [handler |-> h, email |-> email, password |-> password,
               token |-> t]
    /\ db0' = db
    /\ tx' = NoTx
    /\ sp' = NoSavepoint
    /\ token' = NoToken
    /\ user_id' = Null
    /\ user' = NoUser
    /\ rerolls' = 0
    /\ return_value' = NoValue
    /\ outcome' = NoOutcome
    /\ result' = NoResult
    /\ mails' = <<>>
    /\ cookies' = <<>>
    /\ attempts' = 0
    /\ invocations' = 0
    /\ commits' = 0
    /\ retries' = 0
    /\ UNCHANGED db
    /\ CASE captcha = "failed" ->
              /\ response' = Err(ApiError("CaptchaFailed", NoErr))
              /\ lastErr' = NoErr
              /\ clean' = TRUE
              /\ pc' = "done"
         [] captcha = "error" ->
              /\ response' = Err(Internal(ReqwestError))
              /\ lastErr' = ReqwestError
              /\ clean' = FALSE
              /\ pc' = "done"
         [] OTHER ->
              /\ response' = NoResult
              /\ lastErr' = NoErr
              /\ clean' = TRUE
              /\ pc' = IF h = "users_post" THEN "u_begin" ELSE "begin"

\* The requests the model draws.
Receive ==
    \/ /\ code' = NoCode
       /\ call' = call
       /\ \E email \in Emails, captcha \in {"ok", "failed", "error"} :
             \/ StartRequest("ev_post", email, "none", NoToken, captcha)
             \/ StartRequest("pr_post", email, "none", NoToken, captcha)
    \/ /\ code' = NoCode
       /\ call' = call
       /\ \E t \in Tokens, password \in Passwords :
             StartRequest("pw_post", "none", password, t, "ok")
    \/ /\ code' = NoCode
       /\ call' = call
       /\ \E email \in Emails, password \in Passwords :
             \/ StartRequest("sessions_post", email, password, NoToken, "ok")
             \/ StartRequest("users_post", email, password, NoToken, "ok")
    \* email_verification/code.rs: the CAPTCHA check, then
    \* `let code = generate_short_code();` before the transaction.
    \/ \E t \in Tokens, c \in Codes, captcha \in {"ok", "failed", "error"} :
          /\ StartRequest("code_post", "none", "none", t, captcha)
          /\ code' = IF captcha = "ok" THEN c ELSE NoCode
          /\ call' = call

\* ------------------------------------------------------- transaction!
\* `let mut tx = pool().begin().await?;` then the call of the unit of work.
Begin ==
    /\ UNCHANGED <<code, procs, call, pool>>
    /\ pc = "begin"
    /\ attempts' = attempts + 1
    /\ \E e \in {NoErr} \cup
                {x \in RoundTripErrors :
                    x = SerializationFailure => attempts + 1 < MaxAttempts} :
          IF e = NoErr
          THEN /\ tx' = OpenTx(db)
               /\ sp' = NoSavepoint
               /\ invocations' = invocations + 1
               /\ Proceed(FirstStatement(req.handler))
          ELSE /\ Raise(e)
               /\ UNCHANGED invocations
    /\ token' = NoToken
    /\ user' = NoUser
    /\ rerolls' = 0
    /\ return_value' = NoValue
    /\ UNCHANGED <<db, req, nreq, db0, user_id, result, mails, cookies,
                   commits, retries>>

\* `tx.commit().await?; Ok(return_value)`
Commit ==
    /\ UNCHANGED <<code, procs, call, pool>>
    /\ pc = "commit"
    /\ \E e \in (IF tx.failed THEN {NoErr} ELSE Answers(RoundTripErrors)) :
          IF e = NoErr
          THEN /\ db' = CommitData(db, tx)
               /\ commits' = commits + 1
               /\ tx' = NoTx
               /\ sp' = NoSavepoint
               /\ outcome' = TxOk(return_value)
               /\ lastErr' = NoErr
               /\ pc' = "loop"
               /\ UNCHANGED <<clean, response>>
          ELSE /\ Raise(e)
               /\ UNCHANGED <<db, commits>>
    /\ UNCHANGED <<req, nreq, db0, token, user_id, user, rerolls,
                   return_value, result, mails, cookies, attempts,
                   invocations, retries>>

\* An executor loop that returns the error of a conflicting attempt.
LoopWithoutRetry ==
    /\ UNCHANGED <<code, procs, call, pool>>
    /\ pc = "loop"
    /\ CASE outcome.tag = "Ok" ->
              /\ result' = Ok(outcome.value)
              /\ pc' = "returned"
              /\ retries' = retries
         [] outcome.tag = "Abort" ->
              /\ result' = Err(outcome.error)
              /\ pc' = "returned"
              /\ retries' = retries
         [] OTHER ->
              /\ result' = Err(Internal(lastErr))
              /\ pc' = "returned"
              /\ retries' = retries + 1
    /\ outcome' = NoOutcome
    /\ UNCHANGED <<db, req, nreq, db0, tx, sp, token, user_id, user, rerolls,
                   return_value, lastErr, response, mails, cookies, attempts,
                   invocations, commits, clean>>

\* An executor loop that also re-runs the unit of work after Abort.
LoopRetryingAbort ==
    /\ UNCHANGED <<code, procs, call, pool>>
    /\ pc = "loop"
    /\ CASE outcome.tag = "Ok" ->
              /\ result' = Ok(outcome.value)
              /\ pc' = "returned"
              /\ retries' = retries
         [] outcome.tag = "Abort" ->
              /\ result' = IF attempts < MaxAttempts
                            THEN result ELSE Err(outcome.error)
              /\ pc' = IF attempts < MaxAttempts THEN "begin" ELSE "returned"
              /\ retries' = retries
         [] OTHER ->
              /\ result' = result
              /\ pc' = "begin"
              /\ retries' = retries + 1
    /\ outcome' = NoOutcome
    /\ UNCHANGED <<db, req, nreq, db0, tx, sp, token, user_id, user, rerolls,
                   return_value, lastErr, response, mails, cookies, attempts,
                   invocations, commits, clean>>

\* An executor loop that re-runs the unit of work without a new transaction.
LoopResumingUnitOfWork ==
    /\ UNCHANGED <<code, procs, call, pool>>
    /\ pc = "loop"
    /\ CASE outcome.tag = "Ok" ->
              /\ result' = Ok(outcome.value)
              /\ pc' = "returned"
              /\ retries' = retries
         [] outcome.tag = "Abort" ->
              /\ result' = Err(outcome.error)
              /\ pc' = "returned"
              /\ retries' = retries
         [] OTHER ->
              /\ result' = result
              /\ pc' = FirstStatement(req.handler)
              /\ retries' = retries + 1
    /\ outcome' = NoOutcome
    /\ UNCHANGED <<db, req, nreq, db0, tx, sp, token, user_id, user, rerolls,
                   return_value, lastErr, response, mails, cookies, attempts,
                   invocations, commits, clean>>

\* An executor loop that runs the closure once more after a success.
LoopRepeatingSuccess ==
    /\ UNCHANGED <<code, procs, call, pool>>
    /\ pc = "loop"
    /\ CASE outcome.tag = "Ok" ->
              /\ result' = IF attempts < 2 THEN result ELSE Ok(outcome.value)
              /\ pc' = IF attempts < 2 THEN "begin" ELSE "returned"
              /\ retries' = retries
         [] outcome.tag = "Abort" ->
              /\ result' = Err(outcome.error)
              /\ pc' = "returned"
              /\ retries' = retries
         [] OTHER ->
              /\ result' = result
              /\ pc' = "begin"
              /\ retries' = retries + 1
    /\ outcome' = NoOutcome
    /\ UNCHANGED <<db, req, nreq, db0, tx, sp, token, user_id, user, rerolls,
                   return_value, lastErr, response, mails, cookies, attempts,
                   invocations, commits, clean>>

\* An executor loop that gives up after the second conflict.
LoopGivingUp ==
    /\ UNCHANGED <<code, procs, call, pool>>
    /\ pc = "loop"
    /\ CASE outcome.tag = "Ok" ->
              /\ result' = Ok(outcome.value)
              /\ pc' = "returned"
              /\ retries' = retries
         [] outcome.tag = "Abort" ->
              /\ result' = Err(outcome.error)
              /\ pc' = "returned"
              /\ retries' = retries
         [] OTHER ->
              /\ result' = IF retries >= 1 THEN Err(Internal(lastErr))
                            ELSE result
              /\ pc' = IF retries >= 1 THEN "returned" ELSE "begin"
              /\ retries' = retries + 1
    /\ outcome' = NoOutcome
    /\ UNCHANGED <<db, req, nreq, db0, tx, sp, token, user_id, user, rerolls,
                   return_value, lastErr, response, mails, cookies, attempts,
                   invocations, commits, clean>>

\* `loop { match callback().await { Ok(value) => break Ok(value),
\*   Err(Abort(error)) => break Err(error), Err(Retry) => {} } }`
Loop ==
    /\ UNCHANGED <<code, procs, call, pool>>
    /\ pc = "loop"
    /\ CASE outcome.tag = "Ok" ->
              /\ result' = Ok(outcome.value)
              /\ pc' = "returned"
              /\ retries' = retries
         [] outcome.tag = "Abort" ->
              /\ result' = Err(outcome.error)
              /\ pc' = "returned"
              /\ retries' = retries
         [] OTHER ->
              /\ result' = result
              /\ pc' = "begin"
              /\ retries' = retries + 1
    /\ outcome' = NoOutcome
    /\ UNCHANGED <<db, req, nreq, db0, tx, sp, token, user_id, user, rerolls,
                   return_value, lastErr, response, mails, cookies, attempts,
                   invocations, commits, clean>>

\* The handler after `db::transaction!(..).await?`: an Err is returned as
\* the response; sessions POST adds the cookie; the others answer 200.
\* A handler that sets the cookie before it looks at what the executor
\* returned.
ReturnedCookieFirst ==
    /\ UNCHANGED <<code, procs, call, pool>>
    /\ pc = "returned"
    /\ pc' = "done"
    /\ cookies' = IF req.handler = "sessions_post"
                  THEN Append(cookies, TokenValue(token))
                  ELSE cookies
    /\ response' = IF result.tag = "Err"
                   THEN Err(result.error)
                   ELSE IF req.handler = "code_post"
                   THEN IF result.value = None
                        THEN Err(ResourceNotFound)
                        ELSE Ok(CodeResponse(result.value[2], code))
                   ELSE Ok(PostResponse(req.handler, req.email))
    /\ UNCHANGED <<db, req, nreq, db0, tx, sp, token, user_id, user, rerolls,
                   return_value, outcome, lastErr, result, mails, attempts,
                   invocations, commits, clean, retries>>

Returned ==
    /\ UNCHANGED <<code, procs, call, pool>>
    /\ pc = "returned"
    /\ pc' = "done"
    /\ IF result.tag = "Err"
       THEN /\ response' = Err(result.error)
            /\ UNCHANGED cookies
       ELSE IF req.handler = "code_post"
       THEN /\ response' = IF result.value = None
                           THEN Err(ResourceNotFound)
                           ELSE Ok(CodeResponse(result.value[2], code))
            /\ UNCHANGED cookies
       ELSE /\ response' = Ok(PostResponse(req.handler, req.email))
            /\ cookies' = IF req.handler = "sessions_post"
                          THEN Append(cookies, result.value)
                          ELSE cookies
    /\ UNCHANGED <<db, req, nreq, db0, tx, sp, token, user_id, user, rerolls,
                   return_value, outcome, lastErr, result, mails, attempts,
                   invocations, commits, clean, retries>>

\* ------------------------------------------- the savepoint loop
\* The identifier the loop inserts: users POST's user_id, else the token.
CandidateKey(h, id) == IF h = "users_post" THEN id ELSE hash_without_salt(id)

\* The values a fresh identifier can take.
Ids(h) == IF h = "users_post" THEN UserIds ELSE Tokens

\* The primary keys present in the loop's table.
PrimaryKeys(data, h) ==
    IF h = "users_post"
    THEN {r.id : r \in data.users}
    ELSE {r.token_hash : r \in data[LoopTable(h)]}

\* A row keyed by a hash that is not the hash of the current token, as when
\* the hash is computed once before the loop and the token rerolled since.
NewRowOfStaleHash(h) ==
    IF h = "users_post"
    THEN [id |-> user_id, email |-> NullEmail,
          password_hash |-> hash_password(req.password)]
    ELSE LET stale == IF rerolls > 0 THEN (token % NumTokens) + 1 ELSE token
         IN  IF h = "ev_post"
             THEN [token_hash |-> hash_without_salt(stale),
                   email |-> req.email, user_id |-> Null,
                   code_hash |-> NullHash]
             ELSE [token_hash |-> hash_without_salt(stale),
                   user_id |-> user.id]

\* The row each handler's loop inserts.
NewRow(h) ==
    CASE h = "ev_post" ->
           [token_hash |-> hash_without_salt(token), email |-> req.email,
            user_id |-> Null, code_hash |-> NullHash]
      [] h = "users_post" ->
           [id |-> user_id, email |-> NullEmail,
            password_hash |-> hash_password(req.password)]
      [] OTHER ->
           [token_hash |-> hash_without_salt(token), user_id |-> user.id]

Inserted(data, h) ==
    [data EXCEPT ![LoopTable(h)] = @ \cup {NewRow(h)}]

\* A match guard that takes every unique violation for a collision.
IsAnyUniqueViolation(e, h) ==
    e.kind = "Database" /\ e.code = UNIQUE_VIOLATION

\* A match guard that also takes the arm of the reroll when the INSERT
\* succeeded.
IsPkeyCollisionOrSuccess(e, h) ==
    \/ e = NoErr
    \/ e.kind = "Database" /\ e.constraint = PkeyConstraint(h)

\* A match guard that also takes a serialization failure for a collision.
IsPkeyCollisionOrConflict(e, h) ==
    /\ e.kind = "Database"
    /\ e.constraint = PkeyConstraint(h) \/ e.code = SERIALIZATION_FAILURE

\* A match guard that never takes the arm of the reroll.
IsNeverCollision(e, h) == FALSE

\* `Err(sqlx::Error::Database(error)) if error.constraint() ==
\*  Some("<table>_pkey")`: the match guard of the loop.
IsPkeyCollision(e, h) ==
    e.kind = "Database" /\ e.constraint = PkeyConstraint(h)

\* `let mut savepoint = tx.begin().await?;`
sp_begin ==
    /\ UNCHANGED <<code, procs, call, pool>>
    /\ pc = "sp_begin"
    /\ \E e \in Answers(RoundTripErrors) :
          IF e = NoErr
          THEN /\ sp' = OpenSavepoint(tx.data)
               /\ tx' = tx
               /\ Proceed("sp_insert")
          ELSE Raise(e)
    /\ UNCHANGED <<db, req, nreq, db0, token, user_id, user, rerolls,
                   return_value, result, mails, cookies, attempts,
                   invocations, commits, retries>>

\* The INSERT of the loop and the match on its result: on the primary-key
\* constraint of the table the identifier is rerolled and the loop continues,
\* dropping the savepoint; any other error leaves with `?`.
sp_insert ==
    /\ UNCHANGED <<code, procs, call, pool>>
    /\ pc = "sp_insert"
    /\ LET h == req.handler
           id == IF h = "users_post" THEN user_id ELSE token
           collides == CandidateKey(h, id) \in PrimaryKeys(tx.data, h)
           answers ==
               IF tx.failed \/ ~collides
               THEN Answers(InsertErrors)
               ELSE (Answers(InsertErrors) \ {NoErr}) \cup
                    {DatabaseError(UNIQUE_VIOLATION, PkeyConstraint(h))}
       IN \E e \in answers, g \in Ids(h) \cup {NoToken} :
             IF IsPkeyCollision(e, h)
             THEN IF g = NoToken
                  THEN /\ Raise(RandError)
                       /\ UNCHANGED <<token, user_id, rerolls>>
                  ELSE /\ rerolls < MaxRerolls
                       /\ rerolls + 1 = MaxRerolls =>
                              CandidateKey(h, g) \notin PrimaryKeys(sp.data, h)
                       /\ token' = IF h = "users_post" THEN token ELSE g
                       /\ user_id' = IF h = "users_post" THEN g ELSE user_id
                       /\ rerolls' = rerolls + 1
                       /\ tx' = RollbackToSavepoint(
                                    [tx EXCEPT !.failed = TRUE], sp)
                       /\ sp' = NoSavepoint
                       /\ lastErr' = e
                       /\ pc' = "sp_begin"
                       /\ UNCHANGED <<clean, outcome, response>>
             ELSE IF e # NoErr
             THEN /\ Raise(e)
                  /\ UNCHANGED <<token, user_id, rerolls>>
             ELSE /\ tx' = [tx EXCEPT !.data = Inserted(tx.data, h)]
                  /\ sp' = sp
                  /\ Proceed("sp_release")
                  /\ UNCHANGED <<token, user_id, rerolls>>
    /\ UNCHANGED <<db, req, nreq, db0, user, return_value, result, mails,
                   cookies, attempts, invocations, commits, retries>>

\* `savepoint.commit().await?; break;` and what follows the loop up to the
\* next round trip: the mail and Ok(()) of email-verification POST and
\* password-reset POST, Ok(token) of sessions POST, the token of users POST.
sp_release ==
    /\ UNCHANGED <<code, procs, call, pool>>
    /\ pc = "sp_release"
    /\ LET h == req.handler
       IN \E e \in Answers(RoundTripErrors), g \in Tokens \cup {NoToken} :
             IF e # NoErr
             THEN /\ Raise(e)
                  /\ UNCHANGED <<token, return_value, mails>>
             ELSE CASE h = "ev_post" ->
                         /\ mails' = Append(mails,
                               Mail("Verification", req.email, token))
                         /\ ReturnOk(Unit)
                         /\ tx' = tx
                         /\ sp' = NoSavepoint
                         /\ UNCHANGED token
                    [] h = "pr_post" ->
                         /\ mails' = Append(mails,
                               Mail("PasswordReset", req.email, token))
                         /\ ReturnOk(Unit)
                         /\ tx' = tx
                         /\ sp' = NoSavepoint
                         /\ UNCHANGED token
                    [] h = "sessions_post" ->
                         /\ ReturnOk(TokenValue(token))
                         /\ tx' = tx
                         /\ sp' = NoSavepoint
                         /\ UNCHANGED <<token, mails>>
                    [] OTHER ->
                         IF g = NoToken
                         THEN /\ Raise(RandError)
                              /\ UNCHANGED <<token, return_value, mails>>
                         ELSE /\ token' = g
                              /\ tx' = tx
                              /\ sp' = NoSavepoint
                              /\ Proceed("u_insert_email")
                              /\ UNCHANGED <<return_value, mails>>
    /\ UNCHANGED <<db, req, nreq, db0, user_id, user, rerolls, result,
                   cookies, attempts, invocations, commits, retries>>

\* ------------------------------------- email_verification.rs: post
\* SELECT name FROM users WHERE email = $1; an existing user is sent the
\* email-taken message and the unit of work returns Ok(()).
\* A unit of work that goes on to the DELETE and the INSERT whether or not
\* the email belongs to a user.
ev_select_proceeding ==
    /\ UNCHANGED <<code, procs, call, pool>>
    /\ pc = "ev_select"
    /\ \E e \in Answers(RoundTripErrors) :
          IF e # NoErr
          THEN /\ Raise(e)
               /\ UNCHANGED <<return_value, mails>>
          ELSE /\ Proceed("ev_delete")
               /\ UNCHANGED <<tx, sp, return_value, mails>>
    /\ UNCHANGED <<db, req, nreq, db0, token, user_id, user, rerolls, result,
                   cookies, attempts, invocations, commits, retries>>

\* A unit of work that fails when the email belongs to a user.
ev_select_telling ==
    /\ UNCHANGED <<code, procs, call, pool>>
    /\ pc = "ev_select"
    /\ \E e \in Answers(RoundTripErrors) :
          IF e # NoErr
          THEN /\ Raise(e)
               /\ UNCHANGED <<return_value, mails>>
          ELSE IF \E u \in tx.data.users : u.email = req.email
          THEN /\ ReturnAbort(ApiError("EmailTaken", NoErr))
               /\ UNCHANGED <<return_value, mails>>
          ELSE /\ Proceed("ev_delete")
               /\ UNCHANGED <<tx, sp, return_value, mails>>
    /\ UNCHANGED <<db, req, nreq, db0, token, user_id, user, rerolls, result,
                   cookies, attempts, invocations, commits, retries>>

ev_select ==
    /\ UNCHANGED <<code, procs, call, pool>>
    /\ pc = "ev_select"
    /\ \E e \in Answers(RoundTripErrors) :
          IF e # NoErr
          THEN /\ Raise(e)
               /\ UNCHANGED <<return_value, mails>>
          ELSE IF \E u \in tx.data.users : u.email = req.email
          THEN /\ mails' = Append(mails, Mail("EmailTaken", req.email, NoToken))
               /\ ReturnOk(Unit)
               /\ UNCHANGED <<tx, sp>>
          ELSE /\ Proceed("ev_delete")
               /\ UNCHANGED <<tx, sp, return_value, mails>>
    /\ UNCHANGED <<db, req, nreq, db0, token, user_id, user, rerolls, result,
                   cookies, attempts, invocations, commits, retries>>

\* DELETE FROM unverified_emails WHERE user_id IS NULL AND email = $1, then
\* `let mut token = Token::generate()?;`
ev_delete ==
    /\ UNCHANGED <<code, procs, call, pool>>
    /\ pc = "ev_delete"
    /\ \E e \in Answers(RoundTripErrors), g \in Tokens \cup {NoToken} :
          IF e # NoErr
          THEN /\ Raise(e)
               /\ UNCHANGED token
          ELSE IF g = NoToken
          THEN /\ Raise(RandError)
               /\ UNCHANGED token
          ELSE /\ tx' = [tx EXCEPT !.data.unverified_emails =
                            {r \in @ : ~(r.user_id = Null /\ r.email = req.email)}]
               /\ sp' = sp
               /\ token' = g
               /\ Proceed("sp_begin")
    /\ UNCHANGED <<db, req, nreq, db0, user_id, user, rerolls, return_value,
                   result, mails, cookies, attempts, invocations, commits, retries>>

\* ------------------------------------------ password_reset.rs: post
\* SELECT id, name FROM users WHERE email = $1; without a user the failure
\* message is sent and the unit of work returns Ok(()).
pr_select ==
    /\ UNCHANGED <<code, procs, call, pool>>
    /\ pc = "pr_select"
    /\ \E e \in Answers(RoundTripErrors) :
          IF e # NoErr
          THEN /\ Raise(e)
               /\ UNCHANGED <<user, return_value, mails>>
          ELSE IF \E u \in tx.data.users : u.email = req.email
          THEN /\ \E u \in tx.data.users :
                     /\ u.email = req.email
                     /\ user' = u
               /\ Proceed("pr_delete")
               /\ UNCHANGED <<tx, sp, return_value, mails>>
          ELSE /\ mails' = Append(mails,
                     Mail("PasswordResetFailed", req.email, NoToken))
               /\ ReturnOk(Unit)
               /\ UNCHANGED <<tx, sp, user>>
    /\ UNCHANGED <<db, req, nreq, db0, token, user_id, rerolls, result,
                   cookies, attempts, invocations, commits, retries>>

\* DELETE FROM password_resets WHERE user_id = $1, then
\* `let mut token = Token::generate()?;`
pr_delete ==
    /\ UNCHANGED <<code, procs, call, pool>>
    /\ pc = "pr_delete"
    /\ \E e \in Answers(RoundTripErrors), g \in Tokens \cup {NoToken} :
          IF e # NoErr
          THEN /\ Raise(e)
               /\ UNCHANGED token
          ELSE IF g = NoToken
          THEN /\ Raise(RandError)
               /\ UNCHANGED token
          ELSE /\ tx' = [tx EXCEPT !.data.password_resets =
                            {r \in @ : r.user_id # user.id}]
               /\ sp' = sp
               /\ token' = g
               /\ Proceed("sp_begin")
    /\ UNCHANGED <<db, req, nreq, db0, user_id, user, rerolls, return_value,
                   result, mails, cookies, attempts, invocations, commits, retries>>

\* --------------------------------- password_reset/password.rs: post
\* DELETE FROM password_resets WHERE token_hash = $1 RETURNING user_id;
\* without a row the unit of work aborts with ResourceNotFound.
pw_delete ==
    /\ UNCHANGED <<code, procs, call, pool>>
    /\ pc = "pw_delete"
    /\ LET token_hash == hash_without_salt(req.token)
           rows == {r \in tx.data.password_resets : r.token_hash = token_hash}
       IN \E e \in Answers(RoundTripErrors) :
             IF e # NoErr
             THEN /\ Raise(e)
                  /\ UNCHANGED user
             ELSE IF rows = {}
             THEN /\ ReturnAbort(ResourceNotFound)
                  /\ UNCHANGED user
             ELSE /\ \E r \in rows : user' = [NoUser EXCEPT !.id = r.user_id]
                  /\ tx' = [tx EXCEPT !.data.password_resets = @ \ rows]
                  /\ sp' = sp
                  /\ Proceed("pw_update")
    /\ UNCHANGED <<db, req, nreq, db0, token, user_id, rerolls, return_value,
                   result, mails, cookies, attempts, invocations, commits, retries>>

\* UPDATE users SET password_hash = $1 WHERE id = $2, then Ok(()).
pw_update ==
    /\ UNCHANGED <<code, procs, call, pool>>
    /\ pc = "pw_update"
    /\ LET password_hash == hash_with_salt(req.password)
       IN \E e \in Answers(RoundTripErrors) :
             IF e # NoErr
             THEN /\ Raise(e)
                  /\ UNCHANGED return_value
             ELSE /\ tx' = [tx EXCEPT !.data.users =
                               {IF u.id = user.id
                                THEN [u EXCEPT !.password_hash = password_hash]
                                ELSE u : u \in @}]
                  /\ sp' = sp
                  /\ ReturnOk(Unit)
    /\ UNCHANGED <<db, req, nreq, db0, token, user_id, user, rerolls, result,
                   mails, cookies, attempts, invocations, commits, retries>>

\* ------------------------------------------------ sessions.rs: post
\* SELECT id, password_hash FROM users WHERE email = $1, filtered by
\* verify_hash; without a match the unit of work aborts with
\* UserCredentialsWrong; else `let mut token = Token::generate()?;`
\* A sign-in that answers an unknown email with another error than a wrong
\* password.
ss_select_telling ==
    /\ UNCHANGED <<code, procs, call, pool>>
    /\ pc = "ss_select"
    /\ LET known == {u \in tx.data.users : u.email = req.email}
           found == {u \in known :
                        verify_hash(req.password, u.password_hash)}
       IN \E e \in Answers(RoundTripErrors), g \in Tokens \cup {NoToken} :
             IF e # NoErr
             THEN /\ Raise(e)
                  /\ UNCHANGED <<user, token>>
             ELSE IF found = {}
             THEN /\ ReturnAbort(IF known = {} THEN ResourceNotFound
                                 ELSE UserCredentialsWrong)
                  /\ UNCHANGED <<user, token>>
             ELSE IF g = NoToken
             THEN /\ Raise(RandError)
                  /\ UNCHANGED <<user, token>>
             ELSE /\ \E u \in found : user' = u
                  /\ token' = g
                  /\ UNCHANGED <<tx, sp>>
                  /\ Proceed("sp_begin")
    /\ UNCHANGED <<db, req, nreq, db0, user_id, rerolls, return_value, result,
                   mails, cookies, attempts, invocations, commits, retries>>

ss_select ==
    /\ UNCHANGED <<code, procs, call, pool>>
    /\ pc = "ss_select"
    /\ LET found == {u \in tx.data.users :
                        /\ u.email = req.email
                        /\ verify_hash(req.password, u.password_hash)}
       IN \E e \in Answers(RoundTripErrors), g \in Tokens \cup {NoToken} :
             IF e # NoErr
             THEN /\ Raise(e)
                  /\ UNCHANGED <<user, token>>
             ELSE IF found = {}
             THEN /\ ReturnAbort(UserCredentialsWrong)
                  /\ UNCHANGED <<user, token>>
             ELSE IF g = NoToken
             THEN /\ Raise(RandError)
                  /\ UNCHANGED <<user, token>>
             ELSE /\ \E u \in found : user' = u
                  /\ token' = g
                  /\ UNCHANGED <<tx, sp>>
                  /\ Proceed("sp_begin")
    /\ UNCHANGED <<db, req, nreq, db0, user_id, rerolls, return_value, result,
                   mails, cookies, attempts, invocations, commits, retries>>

\* ------------------------------- email_verification/code.rs: post
\* `let token_hash = hash_without_salt(&query.token);`,
\* `let code_hash = hash_with_salt(&code)?;` and the unit of work:
\* UPDATE unverified_emails SET code_hash = $1 WHERE token_hash = $2 AND
\* user_id IS NULL RETURNING email, returned as Ok(Option<..>).
cp_update ==
    /\ UNCHANGED <<code, procs, call, pool>>
    /\ pc = "cp_update"
    /\ LET token_hash == hash_without_salt(req.token)
           code_hash == hash_with_salt(code)
           rows == {r \in tx.data.unverified_emails :
                       r.token_hash = token_hash /\ r.user_id = Null}
       IN \E e \in Answers(RoundTripErrors) :
             IF e # NoErr
             THEN /\ Raise(e)
                  /\ UNCHANGED return_value
             ELSE /\ tx' = [tx EXCEPT !.data.unverified_emails =
                               {IF r \in rows
                                THEN [r EXCEPT !.code_hash = code_hash]
                                ELSE r : r \in @}]
                  /\ sp' = sp
                  /\ IF rows = {}
                     THEN ReturnOk(None)
                     ELSE \E r \in rows : ReturnOk(Some(r.email))
    /\ UNCHANGED <<db, req, nreq, db0, token, user_id, user, rerolls, result,
                   mails, cookies, attempts, invocations, commits, retries>>

\* --------------------------------------------------- users.rs: post
\* `NewUserId::generate()?`, `hash_password(..)?`, `db::pool().begin().await?`
u_begin ==
    /\ UNCHANGED <<code, procs, call, pool>>
    /\ pc = "u_begin"
    /\ \E e \in {NoErr} \cup RoundTripErrors, g \in UserIds \cup {Null} :
          IF g = Null
          THEN /\ Raise(RandError)
               /\ UNCHANGED <<user_id, attempts>>
          ELSE IF e # NoErr
          THEN /\ Raise(e)
               /\ user_id' = g
               /\ attempts' = attempts + 1
          ELSE /\ user_id' = g
               /\ attempts' = attempts + 1
               /\ tx' = OpenTx(db)
               /\ sp' = NoSavepoint
               /\ Proceed("u_select")
    /\ UNCHANGED <<db, req, nreq, db0, token, user, rerolls, return_value,
                   result, mails, cookies, invocations, commits, retries>>

\* SELECT name FROM users WHERE email = $1; an existing user is sent the
\* email-taken message (spawned at once) and the handler goes to the commit.
u_select ==
    /\ UNCHANGED <<code, procs, call, pool>>
    /\ pc = "u_select"
    /\ \E e \in Answers(RoundTripErrors) :
          IF e # NoErr
          THEN /\ Raise(e)
               /\ UNCHANGED mails
          ELSE IF \E u \in tx.data.users : u.email = req.email
          THEN /\ mails' = Append(mails, Mail("EmailTaken", req.email, NoToken))
               /\ Proceed("u_commit")
               /\ UNCHANGED <<tx, sp>>
          ELSE /\ Proceed("sp_begin")
               /\ UNCHANGED <<tx, sp, mails>>
    /\ UNCHANGED <<db, req, nreq, db0, token, user_id, user, rerolls,
                   return_value, result, cookies, attempts, invocations,
                   commits, retries>>

\* INSERT INTO unverified_emails (user_id, email, token_hash), then the
\* verification message is spawned.
u_insert_email ==
    /\ UNCHANGED <<code, procs, call, pool>>
    /\ pc = "u_insert_email"
    /\ LET row == [token_hash |-> digest(SHA256, token),
                   email |-> req.email, user_id |-> user_id,
                   code_hash |-> NullHash]
           collides == row.token_hash \in
                          {r.token_hash : r \in tx.data.unverified_emails}
           answers ==
               IF tx.failed \/ ~collides
               THEN Answers(InsertErrors)
               ELSE (Answers(InsertErrors) \ {NoErr}) \cup
                    {DatabaseError(UNIQUE_VIOLATION, "unverified_emails_pkey")}
       IN \E e \in answers :
             IF e # NoErr
             THEN /\ Raise(e)
                  /\ UNCHANGED mails
             ELSE /\ tx' = [tx EXCEPT !.data.unverified_emails = @ \cup {row}]
                  /\ sp' = sp
                  /\ mails' = Append(mails,
                        Mail("Verification", req.email, token))
                  /\ Proceed("u_commit")
    /\ UNCHANGED <<db, req, nreq, db0, token, user_id, user, rerolls,
                   return_value, result, cookies, attempts, invocations,
                   commits, retries>>

\* `tx.commit().await?;` and the 200 response.
u_commit ==
    /\ UNCHANGED <<code, procs, call, pool>>
    /\ pc = "u_commit"
    /\ \E e \in (IF tx.failed THEN {NoErr} ELSE Answers(RoundTripErrors)) :
          IF e # NoErr
          THEN /\ Raise(e)
               /\ UNCHANGED <<db, commits>>
          ELSE /\ db' = CommitData(db, tx)
               /\ commits' = commits + 1
               /\ tx' = NoTx
               /\ sp' = NoSavepoint
               /\ response' = Ok(PostResponse(req.handler, req.email))
               /\ lastErr' = NoErr
               /\ pc' = "done"
               /\ UNCHANGED <<clean, outcome>>
    /\ UNCHANGED <<req, nreq, db0, token, user_id, user, rerolls,
                   return_value, result, mails, cookies, attempts,
                   invocations, retries>>

\* --------------------------------------------------- specification
Next ==
    \/ Receive
    \/ Begin
    \/ Commit
    \/ Loop
    \/ Returned
    \/ sp_begin
    \/ sp_insert
    \/ sp_release
    \/ ev_select
    \/ ev_delete
    \/ pr_select
    \/ pr_delete
    \/ pw_delete
    \/ pw_update
    \/ ss_select
    \/ cp_update
    \/ u_begin
    \/ u_select
    \/ u_insert_email
    \/ u_commit

Spec == Init /\ [][Next]_vars

TypeOK ==
    /\ pc \in {"idle", "begin", "commit", "loop", "returned", "done",
               "sp_begin", "sp_insert", "sp_release", "ev_select",
               "ev_delete", "pr_select", "pr_delete", "pw_delete",
               "pw_update", "ss_select", "cp_update", "u_begin", "u_select",
               "u_insert_email", "u_commit"}
    /\ attempts \in 0..MaxAttempts
    /\ rerolls \in 0..MaxRerolls
    /\ nreq \in 0..MaxRequests

\* ------------------------------------------- db.rs: progress
\* The requests of sessions POST, whose unit of work has a savepoint loop.
LiveReceive ==
    /\ code' = NoCode
    /\ call' = call
    /\ \E email \in Emails, password \in Passwords :
          StartRequest("sessions_post", email, password, NoToken, "ok")

LiveNext ==
    \/ LiveReceive
    \/ Begin
    \/ ss_select
    \/ sp_begin
    \/ sp_insert
    \/ sp_release
    \/ Commit
    \/ Loop
    \/ Returned

\* The runtime keeps polling the future of a request and the database
\* answers every round trip: a step that can be taken is taken.
LiveSpec == Init /\ [][LiveNext]_vars /\ WF_vars(LiveNext)

\* ------------------------------------------- db.rs: cancellation
\* A dropped transaction that is committed instead of rolled back.
DropCommitting(committed, t) ==
    IF t.open /\ ~t.failed THEN t.data ELSE committed

\* The committed state after `tx` went out of scope without a commit:
\* sqlx rolls the transaction back.
DropTx(committed, t) == committed

\* The suspension points of an executor invocation at which the commit of
\* the current attempt is not issued yet: the begin, every statement of
\* the unit of work, and the point right before the commit.
BeforeCommit ==
    /\ req.handler \in ExecutorHandlers
    /\ pc \in {"begin", "commit", "sp_begin", "sp_insert", "sp_release",
               "ev_select", "ev_delete", "pr_select", "pr_delete",
               "pw_delete", "pw_update", "ss_select", "cp_update"}

\* The request future is dropped at a suspension point: the future of
\* transaction! goes with it, and so does its `tx`.  The locals keep the
\* values they had when they were dropped.
Cancel ==
    /\ BeforeCommit
    /\ db' = DropTx(db, tx)
    /\ tx' = NoTx
    /\ sp' = NoSavepoint
    /\ pc' = "cancelled"
    /\ UNCHANGED <<req, nreq, db0, token, user_id, user, rerolls,
                   return_value, outcome, lastErr, result, response, mails,
                   cookies, attempts, invocations, commits, retries, clean,
                   code, procs, call, pool>>

CancelNext == Next \/ Cancel

CancelSpec == Init /\ [][CancelNext]_vars

\* ------------------------------------------------------------- id.rs
\* The variables of the request specification, which the other
\* specifications leave alone.
request_vars ==
    <<pc, req, nreq, tx, sp, token, user_id, user, rerolls, return_value,
      outcome, lastErr, result, response, mails, cookies, attempts,
      invocations, commits, retries, clean, db0, code>>

\* The values of the bytes of the identifiers the model draws.
ByteSamples == {0, 1, 128, 255}

\* A character of a text is the index of a character of the base64url
\* alphabet (0..63: A-Z a-z 0-9 - _), or a character outside of it: 64
\* stands for the padding character '=', 65 for '+'.
Sextets == 0..63
CharSamples == {0, 1, 16, 63, 64, 65}

\* The byte sequences of length n, and the texts of length up to n.
RECURSIVE SeqsOfLen(_, _)
SeqsOfLen(S, n) ==
    IF n = 0 THEN {<<>>}
    ELSE {Append(q, x) : q \in SeqsOfLen(S, n - 1), x \in S}

SeqsUpTo(S, n) == UNION {SeqsOfLen(S, k) : k \in 0..n}

\* URL_SAFE_NO_PAD.encode: three bytes give four characters; a last group
\* of one byte gives two, of two bytes three; no padding is written.
RECURSIVE Encode(_)
Encode(bytes) ==
    CASE Len(bytes) = 0 -> <<>>
      [] Len(bytes) = 1 ->
           <<bytes[1] \div 4, (bytes[1] % 4) * 16>>
      [] Len(bytes) = 2 ->
           <<bytes[1] \div 4,
             (bytes[1] % 4) * 16 + bytes[2] \div 16,
             (bytes[2] % 16) * 4>>
      [] OTHER ->
           <<bytes[1] \div 4,
             (bytes[1] % 4) * 16 + bytes[2] \div 16,
             (bytes[2] % 16) * 4 + bytes[3] \div 64,
             bytes[3] % 64>> \o Encode(SubSeq(bytes, 4, Len(bytes)))

\* The bytes of a text of characters of the alphabet whose length is not
\* 1 modulo 4.
RECURSIVE DecodeChars(_)
DecodeChars(str) ==
    CASE Len(str) = 0 -> <<>>
      [] Len(str) = 2 ->
           <<str[1] * 4 + str[2] \div 16>>
      [] Len(str) = 3 ->
           <<str[1] * 4 + str[2] \div 16,
             (str[2] % 16) * 16 + str[3] \div 4>>
      [] OTHER ->
           <<str[1] * 4 + str[2] \div 16,
             (str[2] % 16) * 16 + str[3] \div 4,
             (str[3] % 4) * 64 + str[4]>> \o
           DecodeChars(SubSeq(str, 5, Len(str)))

\* base64::DecodeError
InvalidByte == "InvalidByte"
InvalidLength == "InvalidLength"
InvalidLastSymbol == "InvalidLastSymbol"

\* URL_SAFE_NO_PAD.decode: a character outside the alphabet (the padding
\* character included), a length of 1 modulo 4 and non-zero bits after the
\* last whole byte are errors.
Decode(str) ==
    LET n == Len(str)
    IN  IF \E i \in 1..n : str[i] \notin Sextets
        THEN Err(InvalidByte)
        ELSE IF n % 4 = 1
        THEN Err(InvalidLength)
        ELSE IF \/ n % 4 = 2 /\ str[n] % 16 # 0
                \/ n % 4 = 3 /\ str[n] % 4 # 0
        THEN Err(InvalidLastSymbol)
        ELSE Ok(DecodeChars(str))

\* id::Error
Base64(source) == <<"Base64", source>>
Size(expected, found) == <<"Size", expected, found>>

\* impl Display for Id<T>
to_string(id) == Encode(id)

\* A from_str that cuts the decoded bytes to N or fills them up with zeros.
from_str_truncating(N, str) ==
    LET decoded == Decode(str)
    IN  IF decoded.tag = "Err"
        THEN Err(Base64(decoded.error))
        ELSE Ok([i \in 1..N |->
                    IF i <= Len(decoded.value) THEN decoded.value[i] ELSE 0])

\* A from_str that checks the size, taken from the length of the text,
\* before it looks at the characters.
from_str_size_first(N, str) ==
    LET decoded == Decode(str)
        found == (Len(str) * 3) \div 4
    IN  IF found # N
        THEN Err(Size(N, found))
        ELSE IF decoded.tag = "Err"
        THEN Err(Base64(decoded.error))
        ELSE Ok(decoded.value)

\* impl<const N: usize> FromStr for Id<[u8; N]>
from_str(N, str) ==
    LET decoded == Decode(str)
    IN  IF decoded.tag = "Err"
        THEN Err(Base64(decoded.error))
        ELSE IF Len(decoded.value) # N
        THEN Err(Size(N, Len(decoded.value)))
        ELSE Ok(decoded.value)

\* A call of the identifier specification: an identifier `id` to write as
\* text and parse back as an identifier of N bytes, or a text to parse.
IdCall(fn, N, id, str) ==
    [fn |-> fn, N |-> N, id |-> id, str |-> str, out |-> NoResult]

IdInit ==
    /\ db = InitDb
    /\ InitRequests
    /\ procs = NoProcs
    /\ pool = NoPool
    /\ \E N \in 1..MaxIdLen :
          \/ \E id \in SeqsUpTo(ByteSamples, MaxIdLen) \ {<<>>} :
                call = IdCall("to_string", N, id, <<>>)
          \/ \E str \in SeqsUpTo(CharSamples, MaxTextLen) :
                call = IdCall("from_str", N, <<>>, str)

\* `id.to_string()`
Display ==
    /\ call.fn = "to_string"
    /\ call' = [call EXCEPT !.fn = "from_str", !.str = to_string(call.id)]
    /\ UNCHANGED <<db, request_vars, procs, pool>>

\* `str.parse::<Id<[u8; N]>>()`
FromStr ==
    /\ call.fn = "from_str"
    /\ call' = [call EXCEPT !.fn = "returned",
                            !.out = from_str(call.N, call.str)]
    /\ UNCHANGED <<db, request_vars, procs, pool>>

IdNext == Display \/ FromStr

IdSpec == IdInit /\ [][IdNext]_vars

\* ---------------------------------------------------------- crypto.rs
\* The secrets the crypto specification draws: passwords, the texts of two
\* short codes and the empty secret.
Secrets == Passwords \cup {"0A1B2C", "ZZZZZZ", ""}

\* Stored strings that hash_with_salt did not write: strings PasswordHash::new
\* rejects, and a well-formed PHC string of another algorithm.
BadHashes ==
    {<<>>, <<"argon2">>, <<"not-a-valid-phc-string">>,
     <<"argon2", "p1", "p2">>} \cup
    {<<"pbkdf2", x>> : x \in Secrets} \cup
    {hash_without_salt(x) : x \in Secrets}

\* A call of the crypto specification: `secret` is hashed, or a stored
\* string is given, and `bytes` is verified against it.
CryptoCall(fn, bytes, secret, hash) ==
    [fn |-> fn, bytes |-> bytes, secret |-> secret, hash |-> hash,
     out |-> "none"]

CryptoInit ==
    /\ db = InitDb
    /\ InitRequests
    /\ procs = NoProcs
    /\ pool = NoPool
    /\ \E bytes \in Secrets :
          \/ \E secret \in Secrets :
                call = CryptoCall("hash_with_salt", bytes, secret, <<>>)
          \/ \E hash \in BadHashes :
                call = CryptoCall("verify_hash", bytes, "none", hash)

\* `hash_with_salt(&secret)`
HashWithSalt ==
    /\ call.fn = "hash_with_salt"
    /\ call' = [call EXCEPT !.fn = "verify_hash",
                            !.hash = hash_with_salt(call.secret)]
    /\ UNCHANGED <<db, request_vars, procs, pool>>

\* `verify_hash(&bytes, &hash)`
VerifyHash ==
    /\ call.fn = "verify_hash"
    /\ call' = [call EXCEPT !.fn = "returned",
                            !.out = verify_hash(call.bytes, call.hash)]
    /\ UNCHANGED <<db, request_vars, procs, pool>>

CryptoNext == HashWithSalt \/ VerifyHash

CryptoSpec == CryptoInit /\ [][CryptoNext]_vars

\* ------------- email_verification/code.rs: the code of the response
\* The verification-code handler with the stream of indices its call of
\* generate_short_code samples drawn at the start: `call` holds the
\* stream until the handler generates its code from it.
CodeCall(samples) ==
    [fn |-> "generate_short_code", samples |-> samples, out |-> NoCode]

CodeInit ==
    /\ db = InitDb
    /\ InitRequests
    /\ procs = NoProcs
    /\ pool = NoPool
    /\ \E samples \in SampleStreams : call = CodeCall(samples)

\* A request of the verification-code handler arrives: the CAPTCHA check,
\* then `let code = generate_short_code();` before the transaction.
CodeReceive ==
    /\ call.fn = "generate_short_code"
    /\ \E t \in Tokens, captcha \in {"ok", "failed", "error"} :
          /\ StartRequest("code_post", "none", "none", t, captcha)
          /\ code' = IF captcha = "ok"
                     THEN generate_short_code(call.samples) ELSE NoCode
          /\ call' = IF captcha = "ok"
                     THEN [call EXCEPT
                              !.fn = "returned",
                              !.out = generate_short_code(call.samples)]
                     ELSE call

CodeNext ==
    \/ CodeReceive
    \/ Begin
    \/ cp_update
    \/ Commit
    \/ Loop
    \/ Returned

CodeSpec == CodeInit /\ [][CodeNext]_vars

\* ------------------------------------------ db.rs: the database pool
\* The connections the pool may hold at a time.
ConnIds == 1..MaxConns

\* PostgreSQL's transaction isolation levels; the server's configuration
\* decides which one a new connection has as default_transaction_isolation.
READ_COMMITTED == "read committed"
REPEATABLE_READ == "repeatable read"
SERIALIZABLE == "serializable"
IsolationLevels == {READ_COMMITTED, REPEATABLE_READ, SERIALIZABLE}

\* A connection: not open; "connected" before the after_connect callback
\* ran; "idle" in the pool; or "in_transaction", acquired by `begin()`.
\* `isolation` is the level of its open transaction, `lazy` tells that the
\* pool opened it after `initialize` returned.
ClosedConn ==
    [state |-> "closed", default_transaction_isolation |-> "none",
     isolation |-> "none", lazy |-> FALSE]

\* The pool before `initialize`: `phase` is "connect" while
\* `PgPoolOptions::connect` runs, "migrate" while the migrations run,
\* "serving" once DB_POOL is set and "failed" when `initialize` returned Err.
NewPool == [phase |-> "connect", conns |-> [c \in ConnIds |-> ClosedConn]]

PoolInit ==
    /\ db = InitDb
    /\ InitRequests
    /\ procs = NoProcs
    /\ call = NoCall
    /\ pool = NewPool

\* An after_connect callback that leaves the connection as the server
\* configured it.
after_connect_nothing(conn) == [conn EXCEPT !.state = "idle"]

\* `.after_connect(|conn, _| .. conn.execute("SET
\* default_transaction_isolation TO 'serializable';").await?; Ok(()))`:
\* the connection as the callback leaves it when the statement succeeded.
after_connect(conn) ==
    [conn EXCEPT !.state = "idle",
                 !.default_transaction_isolation = SERIALIZABLE]

\* The pool opens a connection: the first one in `connect(&db_url)`, the
\* others when a request finds no idle connection.  A connection that
\* cannot be opened fails `initialize`.
PoolConnect(c) ==
    /\ pool.phase \in {"connect", "migrate", "serving"}
    /\ pool.phase = "connect" =>
          \A d \in ConnIds : pool.conns[d].state = "closed"
    /\ pool.conns[c].state = "closed"
    /\ \E level \in IsolationLevels \cup {"none"} :
          IF level = "none"
          THEN /\ pool.phase = "connect"
               /\ pool' = [pool EXCEPT !.phase = "failed"]
          ELSE pool' = [pool EXCEPT !.conns[c] =
                           [state |-> "connected",
                            default_transaction_isolation |-> level,
                            isolation |-> "none",
                            lazy |-> pool.phase # "connect"]]
    /\ UNCHANGED <<db, request_vars, procs, call>>

\* The after_connect callback runs on the new connection before the pool
\* hands it out; when its statement fails the connection is closed, and
\* `connect(&db_url).await?` fails `initialize`.
AfterConnect(c) ==
    /\ pool.conns[c].state = "connected"
    /\ \E ok \in BOOLEAN :
          pool' = [pool EXCEPT
                      !.conns[c] = IF ok THEN after_connect(@)
                                   ELSE ClosedConn,
                      !.phase = CASE @ # "connect" -> @
                                  [] ok -> "migrate"
                                  [] OTHER -> "failed"]
    /\ UNCHANGED <<db, request_vars, procs, call>>

\* `sqlx::migrate!().run(&pool).await?;` and `DB_POOL.set(pool)`
Migrate ==
    /\ pool.phase = "migrate"
    /\ \E ok \in BOOLEAN :
          pool' = [pool EXCEPT !.phase = IF ok THEN "serving" ELSE "failed"]
    /\ UNCHANGED <<db, request_vars, procs, call>>

\* `$crate::db::pool().begin().await?`: BEGIN on an idle connection of the
\* initialized pool; the transaction runs at the connection's
\* default_transaction_isolation.
PoolBegin(c) ==
    /\ pool.phase = "serving"
    /\ pool.conns[c].state = "idle"
    /\ pool' = [pool EXCEPT
                   !.conns[c].state = "in_transaction",
                   !.conns[c].isolation =
                       pool.conns[c].default_transaction_isolation]
    /\ UNCHANGED <<db, request_vars, procs, call>>

\* The transaction is committed or dropped: the connection returns to the
\* pool.  No statement of a handler changes the connection's settings.
PoolEnd(c) ==
    /\ pool.conns[c].state = "in_transaction"
    /\ pool' = [pool EXCEPT !.conns[c].state = "idle",
                            !.conns[c].isolation = "none"]
    /\ UNCHANGED <<db, request_vars, procs, call>>

\* The pool closes an idle connection (idle timeout, maximum lifetime).
PoolClose(c) ==
    /\ pool.phase = "serving"
    /\ pool.conns[c].state = "idle"
    /\ pool' = [pool EXCEPT !.conns[c] = ClosedConn]
    /\ UNCHANGED <<db, request_vars, procs, call>>

PoolNext ==
    \/ Migrate
    \/ \E c \in ConnIds :
          \/ PoolConnect(c)
          \/ AfterConnect(c)
          \/ PoolBegin(c)
          \/ PoolEnd(c)
          \/ PoolClose(c)

PoolSpec == PoolInit /\ [][PoolNext]_vars

\* ------------------------------------- users.rs: concurrent requests
\* Two requests of users POST run concurrently, each in its own
\* transaction on its own snapshot of the committed state.  PostgreSQL
\* makes an INSERT whose key another open transaction has inserted wait
\* for that transaction to end; a key that is committed, in the snapshot
\* or not, violates the primary key.
ProcIds == {1, 2}

\* The committed state the concurrent requests start with: one user, one
\* pending verification.
ConcurrentDb ==
    [InitDb EXCEPT
        !.users = {u \in @ : u.id = 1},
        !.unverified_emails = {r \in @ : r.token_hash = hash_without_salt(1)}]

\* The state of one request: its position, inputs, locals, transaction,
\* the snapshot the transaction started from, and what it answered.
\* first_id is the identifier it generated first; other_error records an
\* error that is not a violation of users_pkey.
NewProc(email, password) ==
    [pc |-> "u_begin", email |-> email, password |-> password,
     user_id |-> Null, first_id |-> Null, token |-> NoToken,
     tx |-> NoTx, snap |-> EmptyDb, sp |-> NoSavepoint, rerolls |-> 0,
     mails |-> <<>>, lastErr |-> NoErr, response |-> NoResult,
     other_error |-> FALSE]

ConcurrentInit ==
    /\ db = ConcurrentDb
    /\ InitRequests
    /\ call = NoCall
    /\ pool = NoPool
    /\ \E email \in [ProcIds -> Emails] :
          procs = [p \in ProcIds |-> NewProc(email[p], "p1")]

\* The rows a transaction has written: its data that is not of its snapshot.
Written(me, table) == me.tx.data[table] \ me.snap[table]

\* The keys of `table` the open transactions of the other requests have
\* inserted and not committed.
KeysHeldByOthers(p, table, key) ==
    {r[key] : r \in UNION {IF procs[q].tx.open
                           THEN Written(procs[q], table) ELSE {} :
                           q \in ProcIds \ {p}}}

\* The keys an INSERT of request p collides with: those its transaction
\* sees and those committed since.
KeysTaken(p, table, key) ==
    {r[key] : r \in procs[p].tx.data[table] \cup db[table]}

\* The primary keys of users and of unverified_emails.
UserKey == "id"
TokenKey == "token_hash"

\* The answers to a round trip of request p.
ConcurrentAnswers(p, errs) ==
    IF procs[p].tx.failed
    THEN {DatabaseError(IN_FAILED_SQL_TRANSACTION, "none")}
    ELSE {NoErr} \cup errs

\* An error leaving the handler with `?`: the transaction is dropped and
\* the handler returns Error::Internal.
Raised(me, e) ==
    [me EXCEPT !.lastErr = e,
               !.tx = NoTx,
               !.sp = NoSavepoint,
               !.response = Err(Internal(e)),
               !.pc = "done",
               !.other_error =
                   @ \/ ~(\/ e.constraint = "users_pkey"
                          \/ e.code = IN_FAILED_SQL_TRANSACTION)]

\* Request p takes a step to the state `next`; the others stay.
Step(p, next) ==
    /\ procs' = [procs EXCEPT ![p] = next]
    /\ UNCHANGED <<request_vars, call, pool>>

\* `NewUserId::generate()?`, `hash_password(..)?`, `db::pool().begin().await?`
c_begin(p) ==
    LET me == procs[p]
    IN  /\ me.pc = "u_begin"
        /\ \E e \in {NoErr} \cup RoundTripErrors, g \in UserIds \cup {Null} :
              IF g = Null
              THEN Step(p, Raised(me, RandError))
              ELSE IF e # NoErr
              THEN Step(p, Raised([me EXCEPT !.user_id = g, !.first_id = g], e))
              ELSE Step(p, [me EXCEPT !.user_id = g, !.first_id = g,
                                      !.tx = OpenTx(db), !.snap = db,
                                      !.pc = "u_select"])
        /\ UNCHANGED db

\* SELECT name FROM users WHERE email = $1
c_select(p) ==
    LET me == procs[p]
    IN  /\ me.pc = "u_select"
        /\ \E e \in ConcurrentAnswers(p, RoundTripErrors) :
              IF e # NoErr
              THEN Step(p, Raised(me, e))
              ELSE IF \E u \in me.tx.data.users : u.email = me.email
              THEN Step(p, [me EXCEPT
                               !.mails = Append(@,
                                   Mail("EmailTaken", me.email, NoToken)),
                               !.pc = "u_commit"])
              ELSE Step(p, [me EXCEPT !.pc = "sp_begin"])
        /\ UNCHANGED db

\* `let mut savepoint = tx.begin().await?;`
c_sp_begin(p) ==
    LET me == procs[p]
    IN  /\ me.pc = "sp_begin"
        /\ \E e \in ConcurrentAnswers(p, RoundTripErrors) :
              IF e # NoErr
              THEN Step(p, Raised(me, e))
              ELSE Step(p, [me EXCEPT !.sp = OpenSavepoint(me.tx.data),
                                      !.pc = "sp_insert"])
        /\ UNCHANGED db

\* INSERT INTO users and the match on its result.  The INSERT waits while
\* another open transaction holds its key.
c_sp_insert(p) ==
    LET me == procs[p]
        h == "users_post"
        collides == me.user_id \in KeysTaken(p, "users", UserKey)
        row == [id |-> me.user_id, email |-> NullEmail,
                password_hash |-> hash_password(me.password)]
        answers ==
            IF me.tx.failed \/ ~collides
            THEN ConcurrentAnswers(p, InsertErrors)
            ELSE (ConcurrentAnswers(p, InsertErrors) \ {NoErr}) \cup
                 {DatabaseError(UNIQUE_VIOLATION, PkeyConstraint(h))}
    IN  /\ me.pc = "sp_insert"
        /\ me.user_id \notin KeysHeldByOthers(p, "users", UserKey)
        /\ \E e \in answers, g \in UserIds \cup {Null} :
              IF IsPkeyCollision(e, h)
              THEN IF g = Null
                   THEN Step(p, Raised(me, RandError))
                   ELSE /\ me.rerolls < MaxRerolls
                        /\ me.rerolls + 1 = MaxRerolls =>
                              g \notin KeysTaken(p, "users", UserKey) \cup
                                       KeysHeldByOthers(p, "users", UserKey)
                        /\ Step(p, [me EXCEPT
                               !.user_id = g,
                               !.rerolls = @ + 1,
                               !.lastErr = e,
                               !.tx = RollbackToSavepoint(
                                          [me.tx EXCEPT !.failed = TRUE],
                                          me.sp),
                               !.sp = NoSavepoint,
                               !.pc = "sp_begin"])
              ELSE IF e # NoErr
              THEN Step(p, Raised(me, e))
              ELSE Step(p, [me EXCEPT !.tx.data.users = @ \cup {row},
                                      !.lastErr = NoErr,
                                      !.pc = "sp_release"])
        /\ UNCHANGED db

\* `savepoint.commit().await?; break;` and `Token::generate()?`
c_sp_release(p) ==
    LET me == procs[p]
    IN  /\ me.pc = "sp_release"
        /\ \E e \in ConcurrentAnswers(p, RoundTripErrors),
              g \in Tokens \cup {NoToken} :
              IF e # NoErr
              THEN Step(p, Raised(me, e))
              ELSE IF g = NoToken
              THEN Step(p, Raised(me, RandError))
              ELSE Step(p, [me EXCEPT !.token = g, !.sp = NoSavepoint,
                                      !.pc = "u_insert_email"])
        /\ UNCHANGED db

\* INSERT INTO unverified_emails (user_id, email, token_hash), then the
\* verification message is spawned.
c_insert_email(p) ==
    LET me == procs[p]
        row == [token_hash |-> digest(SHA256, me.token),
                email |-> me.email, user_id |-> me.user_id,
                code_hash |-> NullHash]
        collides ==
            row.token_hash \in KeysTaken(p, "unverified_emails", TokenKey)
        answers ==
            IF me.tx.failed \/ ~collides
            THEN ConcurrentAnswers(p, InsertErrors)
            ELSE (ConcurrentAnswers(p, InsertErrors) \ {NoErr}) \cup
                 {DatabaseError(UNIQUE_VIOLATION, "unverified_emails_pkey")}
    IN  /\ me.pc = "u_insert_email"
        /\ row.token_hash \notin
               KeysHeldByOthers(p, "unverified_emails", TokenKey)
        /\ \E e \in answers :
              IF e # NoErr
              THEN Step(p, Raised(me, e))
              ELSE Step(p, [me EXCEPT
                               !.tx.data.unverified_emails = @ \cup {row},
                               !.mails = Append(@,
                                   Mail("Verification", me.email, me.token)),
                               !.pc = "u_commit"])
        /\ UNCHANGED db

\* COMMIT of a transaction that only inserted: its rows are added to the
\* committed state.
CommitWritten(committed, me) ==
    IF me.tx.failed
    THEN committed
    ELSE [table \in DOMAIN committed |->
             committed[table] \cup Written(me, table)]

\* `tx.commit().await?;` and the 200 response.
c_commit(p) ==
    LET me == procs[p]
    IN  /\ me.pc = "u_commit"
        /\ \E e \in (IF me.tx.failed THEN {NoErr}
                     ELSE ConcurrentAnswers(p, RoundTripErrors)) :
              IF e # NoErr
              THEN /\ Step(p, Raised(me, e))
                   /\ UNCHANGED db
              ELSE /\ db' = CommitWritten(db, me)
                   /\ Step(p, [me EXCEPT !.tx = NoTx, !.sp = NoSavepoint,
                                         !.lastErr = NoErr,
                                         !.response =
                                            Ok(PostResponse("users_post",
                                                            me.email)),
                                         !.pc = "done"])

ConcurrentNext ==
    \E p \in ProcIds :
        \/ c_begin(p)
        \/ c_select(p)
        \/ c_sp_begin(p)
        \/ c_sp_insert(p)
        \/ c_sp_release(p)
        \/ c_insert_email(p)
        \/ c_commit(p)

ConcurrentSpec == ConcurrentInit /\ [][ConcurrentNext]_vars

\* ------------------- db.rs: concurrent invocations of the executor
\* Two requests of the same handler (password-reset POST, email-verification
\* POST or the password-reset fulfilment) run concurrently through
\* transaction!, each attempt in a SERIALIZABLE transaction of PostgreSQL:
\*   - the transaction reads the snapshot taken when it began, and its own
\*     writes;
\*   - a DELETE or UPDATE of a row another open transaction deleted or
\*     updated waits for that transaction to end, and fails with 40001 when
\*     the row was changed by a transaction that committed since the
\*     snapshot;
\*   - an INSERT of a key another open transaction inserted waits, and
\*     violates the primary key when the key is committed;
\*   - a transaction cannot commit when that completes a dangerous
\*     structure of read-write dependencies (T_in reads what T_pivot writes,
\*     T_pivot reads what T_out writes, all concurrent, T_out first to
\*     commit): it fails with 40001.
\* Beyond that the database may answer a commit with a serialization
\* failure of its own, or with an I/O error.  The statements between the
\* begin and the commit that touch no shared state are part of the step
\* before them.
SerialHandlers == {"pr_post", "ev_post", "pw_post"}

\* The committed state the requests start with: two users and, when
\* `pending`, a password reset of user 1 and a pending verification of the
\* email "e2", both keyed by the hash of token 1.
SerialDb(pending) ==
    [users |->
        {[id |-> 1, email |-> "e1", password_hash |-> hash_with_salt("p0")],
         [id |-> 2, email |-> "e0", password_hash |-> hash_with_salt("p0")]},
     unverified_emails |->
        IF pending
        THEN {[token_hash |-> hash_without_salt(1), email |-> "e2",
               user_id |-> Null, code_hash |-> NullHash]}
        ELSE {},
     password_resets |->
        IF pending
        THEN {[token_hash |-> hash_without_salt(1), user_id |-> 1]}
        ELSE {},
     sessions |-> {}]

\* The state of one request.  begin_seq is the number of transactions that
\* had committed when the current attempt took its snapshot, commit_seq the
\* position of its own commit among the commits (0: none), reads the
\* conditions of the rows its statements searched for, del the rows of the
\* snapshot its transaction deleted or updated, ins the rows it wrote,
\* inserted the token whose row its committed attempt inserted.
NewTask(h, email, password, t) ==
    [pc |-> "begin", handler |-> h, email |-> email, password |-> password,
     req_token |-> t, token |-> NoToken, user_id |-> Null,
     tx |-> NoTx, snap |-> EmptyDb, begin_seq |-> 0, commit_seq |-> 0,
     reads |-> <<>>, del |-> EmptyDb, ins |-> EmptyDb, rerolls |-> 0, attempts |-> 0, retries |-> 0,
     inserted |-> NoToken, response |-> NoResult, other_error |-> FALSE]

SerialInit ==
    /\ InitRequests
    /\ call = NoCall
    /\ pool = NoPool
    /\ \E pending \in BOOLEAN : db = SerialDb(pending)
    /\ \E h \in SerialHandlers :
          \E email \in [ProcIds -> Emails], t \in [ProcIds -> {1, 2}] :
             /\ h = "pw_post" => \A p \in ProcIds : email[p] = "e1"
             /\ h # "pw_post" => \A p \in ProcIds : t[p] = 1
             /\ procs = [p \in ProcIds |->
                            NewTask(h, email[p],
                                    IF p = 1 THEN "p1" ELSE "p2", t[p])]

\* The condition of a search: the rows of `table` whose column `col` is
\* `val`.
Cond(table, col, val) == [table |-> table, col |-> col, val |-> val]
Matches(cond, row) == row[cond.col] = cond.val

\* The number of transactions committed so far.
NCommits == Cardinality({q \in ProcIds : procs[q].commit_seq > 0})

\* Two transactions are concurrent when neither committed before the
\* other took its snapshot.  `me` is the transaction that is open, or about
\* to commit; q has committed or is open.
Concurrent(me, other) ==
    /\ ~(other.commit_seq > 0 /\ other.commit_seq <= me.begin_seq)
    /\ ~(me.commit_seq > 0 /\ me.commit_seq <= other.begin_seq)

\* Dependencies through the rows that were read only, without the
\* predicate locks that cover the rows a search did not find.
RwDependencyOnDeleted(reader, writer) ==
    /\ Concurrent(reader, writer)
    /\ \E i \in 1..Len(reader.reads) :
          \E row \in writer.del[reader.reads[i].table] :
             Matches(reader.reads[i], row)

\* A read-write dependency: `reader` searched for rows that `writer`, a
\* concurrent transaction, inserted or deleted.
RwDependency(reader, writer) ==
    /\ Concurrent(reader, writer)
    /\ \E i \in 1..Len(reader.reads) :
          \E row \in writer.ins[reader.reads[i].table] \cup
                     writer.del[reader.reads[i].table] :
             Matches(reader.reads[i], row)

\* An isolation level that tracks no read-write dependencies (REPEATABLE
\* READ).
NeverDangerous(p) == FALSE

\* The commit of request p would complete a dangerous structure among the
\* committed transactions and its own: SERIALIZABLE fails it with 40001.
Dangerous(p) ==
    LET txs == {q \in ProcIds : q = p \/ procs[q].commit_seq > 0}
        seq(q) == IF q = p THEN NCommits + 1 ELSE procs[q].commit_seq
    IN  \E in \in txs, pivot \in txs, out \in txs :
           /\ p \in {in, pivot}
           /\ in # pivot /\ pivot # out
           /\ seq(out) < seq(pivot) /\ seq(out) <= seq(in)
           /\ RwDependency(procs[in], procs[pivot])
           /\ RwDependency(procs[pivot], procs[out])

\* The requests whose transaction committed after `me` took its snapshot.
CommittedSince(me) ==
    {q \in ProcIds : procs[q].commit_seq > me.begin_seq}

\* A row of the snapshot that a transaction committed since has deleted or
\* updated.
ConcurrentlyChanged(me, table, rows) ==
    \E q \in CommittedSince(me) : rows \cap procs[q].del[table] # {}

\* A row that another open transaction has deleted or updated.
LockedByOthers(p, table, rows) ==
    \E q \in ProcIds \ {p} :
        /\ procs[q].tx.open
        /\ rows \cap procs[q].del[table] # {}

\* The keys of `table` the open transactions of the other requests have
\* inserted and not committed.
KeysLockedByOthers(p, table) ==
    {r.token_hash :
        r \in UNION {IF procs[q].tx.open THEN procs[q].ins[table] ELSE {} :
                        q \in ProcIds \ {p}}}

\* The keys an INSERT collides with: those of the rows the transaction
\* sees and of the rows committed since its snapshot.
KeysUsed(me, table) ==
    {r.token_hash :
        r \in me.tx.data[table] \cup
              UNION {procs[q].ins[table] : q \in CommittedSince(me)}}

\* The attempt ends in TxError::Retry: the transaction is dropped and the
\* executor loop calls the closure again.
Retried(me) ==
    [me EXCEPT !.tx = NoTx, !.snap = EmptyDb, !.reads = <<>>,
               !.del = EmptyDb, !.ins = EmptyDb,
               !.token = NoToken, !.user_id = Null, !.rerolls = 0,
               !.retries = @ + 1, !.pc = "begin"]

\* The attempt ends in TxError::Abort(e): the executor returns Err(e) and
\* the handler answers with it.
Aborted(me, e) ==
    [me EXCEPT !.tx = NoTx, !.snap = EmptyDb, !.reads = <<>>,
               !.del = EmptyDb, !.ins = EmptyDb,
               !.response = Err(e), !.pc = "done",
               !.other_error = @ \/ e.variant = "Internal"]

\* `pool().begin().await?` and the first statement of the unit of work,
\* which takes the snapshot.  After their SELECT password-reset POST goes on
\* with its DELETE when the user exists, email-verification POST when no
\* user has the email; else they return Ok(()).  The first statement of the
\* fulfilment is its DELETE, which t_delete completes.
t_begin(p) ==
    LET me == procs[p]
        began == [me EXCEPT !.tx = OpenTx(db), !.snap = db,
                            !.begin_seq = NCommits,
                            !.attempts = @ + 1]
        found == {u \in db.users : u.email = me.email}
        selected == [began EXCEPT
                        !.reads = <<Cond("users", "email", me.email)>>]
    IN  /\ me.pc = "begin"
        /\ CASE me.handler = "pw_post" ->
                  Step(p, [began EXCEPT !.pc = "delete"])
             [] me.handler = "pr_post" ->
                  IF found = {}
                  THEN Step(p, [selected EXCEPT !.pc = "commit"])
                  ELSE \E u \in found :
                          Step(p, [selected EXCEPT !.user_id = u.id,
                                                   !.pc = "delete"])
             [] OTHER ->
                  IF found = {}
                  THEN Step(p, [selected EXCEPT !.pc = "delete"])
                  ELSE Step(p, [selected EXCEPT !.pc = "commit"])
        /\ UNCHANGED db

\* The condition of the DELETE of each handler.
DeleteCond(me) ==
    CASE me.handler = "pr_post" ->
           Cond("password_resets", "user_id", me.user_id)
      [] me.handler = "ev_post" ->
           Cond("unverified_emails", "email", me.email)
      [] OTHER ->
           Cond("password_resets", "token_hash",
                hash_without_salt(me.req_token))

\* A fulfilment that looks the reset up without deleting it.
t_select_only(p) ==
    LET me == procs[p]
        cond == DeleteCond(me)
        rows == {r \in me.tx.data[cond.table] : Matches(cond, r)}
    IN  /\ me.pc = "delete"
        /\ IF me.handler = "pw_post" /\ rows # {}
           THEN \E r \in rows :
                   Step(p, [me EXCEPT !.reads = Append(@, cond),
                                      !.user_id = r.user_id,
                                      !.pc = "update"])
           ELSE Step(p, Aborted(me, ResourceNotFound))
        /\ UNCHANGED db

\* The DELETE of the unit of work: DELETE FROM password_resets WHERE
\* user_id = $1 and DELETE FROM unverified_emails WHERE user_id IS NULL AND
\* email = $1, each followed by `Token::generate()?`, and DELETE FROM
\* password_resets WHERE token_hash = $1 RETURNING user_id, without a row
\* of which the unit of work aborts with ResourceNotFound.
t_delete(p) ==
    LET me == procs[p]
        cond == DeleteCond(me)
        rows == {r \in me.tx.data[cond.table] : Matches(cond, r)}
        deleted == [me EXCEPT !.tx.data[cond.table] = @ \ rows,
                              !.del[cond.table] = @ \cup rows,
                              !.reads = Append(@, cond)]
    IN  /\ me.pc = "delete"
        /\ ~LockedByOthers(p, cond.table, rows)
        /\ IF ConcurrentlyChanged(me, cond.table, rows)
           THEN Step(p, Retried(me))
           ELSE IF me.handler = "pw_post"
           THEN IF rows = {}
                THEN Step(p, Aborted(me, ResourceNotFound))
                ELSE \E r \in rows :
                        Step(p, [deleted EXCEPT !.user_id = r.user_id,
                                                !.pc = "update"])
           ELSE \E g \in Tokens :
                   Step(p, [deleted EXCEPT !.token = g, !.pc = "insert"])
        /\ UNCHANGED db

\* The row the savepoint loop of the request inserts.
TaskRow(me) ==
    IF me.handler = "ev_post"
    THEN [token_hash |-> hash_without_salt(me.token), email |-> me.email,
          user_id |-> Null, code_hash |-> NullHash]
    ELSE [token_hash |-> hash_without_salt(me.token), user_id |-> me.user_id]

\* The savepoint loop: the INSERT waits while another open transaction
\* holds its key; a key that is taken violates the primary key, and the
\* token is rerolled after the rollback to the savepoint.
t_insert(p) ==
    LET me == procs[p]
        table == IF me.handler = "ev_post" THEN "unverified_emails"
                 ELSE "password_resets"
        row == TaskRow(me)
        taken == KeysUsed(me, table)
        e == DatabaseError(UNIQUE_VIOLATION, PkeyConstraint(me.handler))
    IN  /\ me.pc = "insert"
        /\ row.token_hash \notin KeysLockedByOthers(p, table)
        /\ IF row.token_hash \in taken
           THEN /\ IsPkeyCollision(e, me.handler)
                /\ me.rerolls < MaxRerolls
                /\ \E g \in Tokens :
                      /\ me.rerolls + 1 = MaxRerolls =>
                            hash_without_salt(g) \notin
                                taken \cup KeysLockedByOthers(p, table)
                      /\ Step(p, [me EXCEPT !.token = g,
                                            !.rerolls = @ + 1])
           ELSE Step(p, [me EXCEPT !.tx.data[table] = @ \cup {row},
                                   !.ins[table] = @ \cup {row},
                                   !.pc = "commit"])
        /\ UNCHANGED db

\* UPDATE users SET password_hash = $1 WHERE id = $2
t_update(p) ==
    LET me == procs[p]
        cond == Cond("users", "id", me.user_id)
        rows == {u \in me.tx.data.users : Matches(cond, u)}
        password_hash == hash_with_salt(me.password)
    IN  /\ me.pc = "update"
        /\ ~LockedByOthers(p, "users", rows)
        /\ IF ConcurrentlyChanged(me, "users", rows)
           THEN Step(p, Retried(me))
           ELSE Step(p, [me EXCEPT
                            !.tx.data.users =
                                (@ \ rows) \cup
                                {[u EXCEPT !.password_hash = password_hash] :
                                    u \in rows},
                            !.del.users = @ \cup rows,
                            !.ins.users =
                                @ \cup
                                {[u EXCEPT !.password_hash = password_hash] :
                                    u \in rows},
                            !.reads = Append(@, cond),
                            !.pc = "commit"])
        /\ UNCHANGED db

\* COMMIT: the rows the transaction deleted leave the committed state and
\* the rows it wrote enter it.
CommitChanges(committed, me) ==
    [table \in DOMAIN committed |->
        (committed[table] \ me.del[table]) \cup me.ins[table]]

\* `tx.commit().await?`, the loop of the executor and the answer of the
\* handler: a serialization failure begins the next attempt, another error
\* is returned, a success is answered with 200.
t_commit(p) ==
    LET me == procs[p]
        errs == IF Dangerous(p) THEN {SerializationFailure, IoError}
                ELSE {NoErr, IoError} \cup
                     {e \in {SerializationFailure} :
                         me.attempts < MaxAttempts}
    IN  /\ me.pc = "commit"
        /\ \E e \in errs :
              IF e = NoErr
              THEN /\ db' = CommitChanges(db, me)
                   /\ Step(p, [me EXCEPT !.tx.open = FALSE,
                                         !.commit_seq = NCommits + 1,
                                         !.inserted = me.token,
                                         !.response =
                                            Ok(PostResponse(me.handler,
                                                            me.email)),
                                         !.pc = "done"])
              ELSE /\ UNCHANGED db
                   /\ IF TxErrorFrom(e) = Retry
                      THEN Step(p, Retried(me))
                      ELSE Step(p, Aborted(me, TxErrorFrom(e).error))

SerialNext ==
    \E p \in ProcIds :
        \/ t_begin(p)
        \/ t_delete(p)
        \/ t_insert(p)
        \/ t_update(p)
        \/ t_commit(p)

SerialSpec == SerialInit /\ [][SerialNext]_vars

\* ------------------------------------- db.rs: DB_POOL, set once
\* The calls of `initialize` a process makes, which may overlap (it is an
\* async fn), and its calls of `pool()`.
InitIds == 1..MaxInits

\* OnceLock::new(): the cell holds no pool.
Unset == 0

\* The process before any call: DB_POOL is empty; no call of `initialize`
\* has started; `got` is what the last call of `pool()` gave ("none" before
\* the first call, "panic", or the pool), `handles` the pools `pool()` has
\* returned, `late` the calls of `initialize` that started when DB_POOL
\* was set.
NewProcess ==
    [DB_POOL |-> Unset, calls |-> [i \in InitIds |-> "new"],
     late |-> {}, got |-> <<"none">>, handles |-> {}, gets |-> 0]

OnceInit ==
    /\ db = InitDb
    /\ InitRequests
    /\ procs = NoProcs
    /\ call = NoCall
    /\ pool = NewProcess

\* A cell whose `set` replaces the value it holds.
SetReplacing(cell, value) == [cell |-> value, result |-> "Ok"]

\* OnceLock::set: stores the value and gives Ok(()) when the cell is
\* empty, else leaves the cell and gives Err(value).
OnceLockSet(cell, value) ==
    IF cell = Unset
    THEN [cell |-> value, result |-> "Ok"]
    ELSE [cell |-> cell, result |-> "Err"]

\* OnceLock::get
OnceLockGet(cell) == IF cell = Unset THEN <<"None">> ELSE <<"Some", cell>>

\* Option::expect / Result::expect: the value, or a panic.
Expect(option) == IF option[1] = "Some" THEN <<"pool", option[2]>>
                  ELSE <<"panic">>

\* `initialize` is called: it reads DATABASE_URL and starts to connect.
initialize_call(i) ==
    /\ pool.calls[i] = "new"
    /\ \A j \in InitIds : j < i => pool.calls[j] # "new"
    /\ pool' = [pool EXCEPT
                   !.calls[i] = "connect",
                   !.late = IF pool.DB_POOL # Unset THEN @ \cup {i} ELSE @]
    /\ UNCHANGED <<db, request_vars, procs, call>>

\* `PgPoolOptions::new().after_connect(..).connect(&db_url).await?`
initialize_connect(i) ==
    /\ pool.calls[i] = "connect"
    /\ \E ok \in BOOLEAN :
          pool' = [pool EXCEPT !.calls[i] = IF ok THEN "migrate" ELSE "Err"]
    /\ UNCHANGED <<db, request_vars, procs, call>>

\* `sqlx::migrate!().run(&pool).await?;` and then, without an await
\* between them, `DB_POOL.set(pool).expect(..)` and `Ok(())`.  The pool the
\* call i built is named i.
initialize_set(i) ==
    /\ pool.calls[i] = "migrate"
    /\ \E ok \in BOOLEAN :
          IF ok
          THEN LET set == OnceLockSet(pool.DB_POOL, i)
               IN  pool' = [pool EXCEPT
                               !.DB_POOL = set.cell,
                               !.calls[i] = IF set.result = "Ok" THEN "Ok"
                                            ELSE "panic"]
          ELSE pool' = [pool EXCEPT !.calls[i] = "Err"]
    /\ UNCHANGED <<db, request_vars, procs, call>>

\* `pool()`: DB_POOL.get().expect("database pool should be initialized
\* before use")
pool_get ==
    /\ pool.gets < MaxGets
    /\ LET got == Expect(OnceLockGet(pool.DB_POOL))
       IN  pool' = [pool EXCEPT
                       !.got = got,
                       !.gets = @ + 1,
                       !.handles = IF got[1] = "pool" THEN @ \cup {got[2]}
                                   ELSE @]
    /\ UNCHANGED <<db, request_vars, procs, call>>

OnceNext ==
    \/ pool_get
    \/ \E i \in InitIds :
          \/ initialize_call(i)
          \/ initialize_connect(i)
          \/ initialize_set(i)

OnceSpec == OnceInit /\ [][OnceNext]_vars

\* ------------------------- file_server/serve.rs, content.rs: handle
\* Paths and queries are sequences of bytes.  A request path is "/"
\* followed by up to MaxPieces of these pieces: "a", "/", "%" (not followed
\* by two hex digits unless the next piece brings them), "41", "%2f",
\* "%41" (an encoded "A"), "%25" (an encoded "%"), "%00", and "%C3", "%A9"
\* (the two bytes of U+00E9, each invalid alone).
PathPieces ==
    {<<97>>, <<47>>, <<37>>, <<52, 49>>, <<37, 50, 102>>, <<37, 52, 49>>,
     <<37, 50, 53>>, <<37, 48, 48>>, <<37, 67, 51>>, <<37, 65, 57>>}

RECURSIVE PathsOf(_)
PathsOf(n) ==
    IF n = 0 THEN {<<47>>}
    ELSE PathsOf(n - 1) \cup
         {p \o piece : p \in PathsOf(n - 1), piece \in PathPieces}

\* Uri::query(): None without a "?", else what follows the first "?":
\* nothing, "q", or "q?q".
Queries == {None, Some(<<>>), Some(<<113>>), Some(<<113, 63, 113>>)}

Methods == {"GET", "HEAD", "OPTIONS", "POST"}

\* The digits of a percent-encoded byte as utf8_percent_encode writes them.
UpperHex == <<48, 49, 50, 51, 52, 53, 54, 55, 56, 57, 65, 66, 67, 68, 69, 70>>

IsHexDigit(b) ==
    \/ b \in 48..57
    \/ b \in 65..70
    \/ b \in 97..102

HexValue(b) ==
    IF b \in 48..57 THEN b - 48
    ELSE IF b \in 65..70 THEN b - 55
    ELSE b - 87

\* percent_decode_str(input): "%" and two hex digits of either case give
\* one byte; every other byte, a "%" without two hex digits included, is
\* kept.
RECURSIVE percent_decode_str(_)
percent_decode_str(input) ==
    IF input = <<>> THEN <<>>
    ELSE IF /\ input[1] = 37
            /\ Len(input) >= 3
            /\ IsHexDigit(input[2])
            /\ IsHexDigit(input[3])
    THEN <<16 * HexValue(input[2]) + HexValue(input[3])>> \o
         percent_decode_str(SubSeq(input, 4, Len(input)))
    ELSE <<input[1]>> \o percent_decode_str(Tail(input))

\* The bytes from the second to the one of index n are continuation bytes.
Continued(bytes, n) ==
    /\ Len(bytes) >= n
    /\ \A i \in 2..n : bytes[i] \in 128..191

\* PercentDecode::decode_utf8 succeeds: the bytes are well-formed UTF-8.
RECURSIVE IsUtf8(_)
IsUtf8(bytes) ==
    IF bytes = <<>> THEN TRUE
    ELSE LET b == bytes[1]
             n == CASE b \in 0..127 -> 1
                    [] b \in 194..223 -> 2
                    [] b \in 224..239 -> 3
                    [] b \in 240..244 -> 4
                    [] OTHER -> 0
         IN  /\ n > 0
             /\ Continued(bytes, n)
             /\ b = 224 => bytes[2] >= 160
             /\ b = 237 => bytes[2] <= 159
             /\ b = 240 => bytes[2] >= 144
             /\ b = 244 => bytes[2] <= 143
             /\ IsUtf8(SubSeq(bytes, n + 1, Len(bytes)))

\* percent_encoding::NON_ALPHANUMERIC: the ASCII bytes that are neither
\* letters nor digits.
NON_ALPHANUMERIC == (0..127) \ ((48..57) \cup (65..90) \cup (97..122))

\* COMPONENT: without - _ . ! ~ * ' ( )
COMPONENT == NON_ALPHANUMERIC \ {45, 95, 46, 33, 126, 42, 39, 40, 41}

\* The component set with "%" removed as well.
COMPONENT_IGNORING_PERCENT == COMPONENT \ {47, 37}

\* COMPONENT_IGNORING_SLASH: COMPONENT.remove(b'/')
COMPONENT_IGNORING_SLASH == COMPONENT \ {47}

\* utf8_percent_encode(input, ascii_set): a byte of the set, and every
\* byte that is not ASCII, becomes "%" and its two upper-case hex digits.
RECURSIVE utf8_percent_encode(_, _)
utf8_percent_encode(input, ascii_set) ==
    IF input = <<>> THEN <<>>
    ELSE LET b == input[1]
         IN  (IF b >= 128 \/ b \in ascii_set
              THEN <<37, UpperHex[(b \div 16) + 1], UpperHex[(b % 16) + 1]>>
              ELSE <<b>>) \o
             utf8_percent_encode(Tail(input), ascii_set)

\* concat_path_and_query: the path, then "?" and the query if there is one.
concat_path_and_query(path, query) ==
    IF query = None THEN path ELSE path \o <<63>> \o query[2]

\* The URI of the website, where "/" is redirected to.
WEBSITE_URI == <<47, 47, 119, 47>>

NoLocation == <<>>
HttpResponse(status, location) == [status |-> status, location |-> location]

\* handle(req): the response to a request with this method, path and
\* query.  (The handler of content.rs answers a request it does not
\* redirect with 400 when its decoded path has no second "/".)
handle(method, initial_path, query) ==
    LET path == percent_decode_str(initial_path)
        normalized_encoded_path ==
            utf8_percent_encode(path, COMPONENT_IGNORING_SLASH)
    IN  IF method = "OPTIONS"
        THEN HttpResponse("NO_CONTENT", NoLocation)
        ELSE IF method \notin {"GET", "HEAD"}
        THEN HttpResponse("METHOD_NOT_ALLOWED", NoLocation)
        ELSE IF initial_path = <<47>>
        THEN HttpResponse("PERMANENT_REDIRECT", WEBSITE_URI)
        ELSE IF ~IsUtf8(path)
        THEN HttpResponse("BAD_REQUEST", NoLocation)
        ELSE IF \E i \in 1..Len(path) : path[i] = 0
        THEN HttpResponse("BAD_REQUEST", NoLocation)
        ELSE IF initial_path # normalized_encoded_path
        THEN HttpResponse("PERMANENT_REDIRECT",
                          concat_path_and_query(normalized_encoded_path,
                                                query))
        ELSE HttpResponse("OK", NoLocation)

\* Uri::path() and Uri::query() of a request for `uri`: the bytes before
\* the first "?" and, if there is one, those after it.
UriPath(uri) ==
    IF \E i \in 1..Len(uri) : uri[i] = 63
    THEN SubSeq(uri, 1, (CHOOSE i \in 1..Len(uri) :
                            /\ uri[i] = 63
                            /\ \A j \in 1..(i - 1) : uri[j] # 63) - 1)
    ELSE uri
UriQuery(uri) ==
    IF \E i \in 1..Len(uri) : uri[i] = 63
    THEN Some(SubSeq(uri, Len(UriPath(uri)) + 2, Len(uri)))
    ELSE None

\* A request and what the server answered to it: `asked` is the request
\* the client made first, `hops` the redirects it has followed since.
NoResponse == HttpResponse("none", NoLocation)
ContentCall(method, path, query) ==
    [fn |-> "handle", method |-> method, path |-> path, query |-> query,
     asked |-> [path |-> path, query |-> query],
     response |-> NoResponse, hops |-> 0]

ContentInit ==
    /\ db = InitDb
    /\ InitRequests
    /\ procs = NoProcs
    /\ pool = NoPool
    /\ \E method \in Methods, path \in PathsOf(MaxPieces), query \in Queries :
          call = ContentCall(method, path, query)

\* The server answers the request.
Handle ==
    /\ call.fn = "handle"
    /\ call.response = NoResponse
    /\ call' = [call EXCEPT
                   !.response = handle(call.method, call.path, call.query)]
    /\ UNCHANGED <<db, request_vars, procs, pool>>

\* The client follows a redirect to a URI of this server with the same
\* method (308).
FollowRedirect ==
    /\ call.fn = "handle"
    /\ call.response.status = "PERMANENT_REDIRECT"
    /\ call.response.location # WEBSITE_URI
    /\ call.hops < MaxHops
    /\ call' = [call EXCEPT
                   !.path = UriPath(call.response.location),
                   !.query = UriQuery(call.response.location),
                   !.response = NoResponse,
                   !.hops = @ + 1]
    /\ UNCHANGED <<db, request_vars, procs, pool>>

ContentNext == Handle \/ FollowRedirect

ContentSpec == ContentInit /\ [][ContentNext]_vars

\* ------------------------------------------------------------ claims
InExecutor ==
    /\ req.handler \in ExecutorHandlers
    /\ pc \notin {"idle", "loop", "returned", "done"}

\* C1 as stated: whenever the unit of work returned success and the commit
\* of that attempt does not hit a conflict, the closure returns Ok with that
\* value and the attempt's writes are the committed state.
C1_AsStated ==
    [][(pc = "commit" /\ lastErr' # SerializationFailure) =>
           (outcome' = TxOk(return_value) /\ db' = tx.data)]_vars

\* C1 amended: whenever the unit of work returned success with value v and
\* the commit of that attempt succeeds, the writes of the attempt become the
\* committed state, the executor returns Ok(v) with exactly that value, and
\* the committed state is not changed again before the handler answers.
C1_CommitPublishes ==
    [][/\ (pc = "commit" /\ lastErr' = NoErr) =>
              /\ outcome' = TxOk(return_value)
              /\ db' = tx.data
              /\ commits' = commits + 1
       /\ (pc = "loop" /\ outcome.tag = "Ok") =>
              /\ result' = Ok(return_value)
              /\ db' = db
       /\ (pc = "returned") => db' = db]_vars

C1_Witness ==
    /\ pc = "done"
    /\ req.handler = "sessions_post"
    /\ token # NoToken
    /\ result = Ok(TokenValue(token))
    /\ commits = 1
    /\ db # db0
    /\ db.sessions =
           db0.sessions \cup
           {[token_hash |-> hash_without_salt(token), user_id |-> user.id]}

\* C2: when the unit of work returns Abort(e), the executor returns Err(e)
\* with the same e, nothing was committed, the unit of work is not invoked
\* again, and the committed state is the state before the invocation.
C2_AbortRollsBack ==
    [][/\ (pc = "loop" /\ outcome.tag = "Abort") =>
              /\ result' = Err(outcome.error)
              /\ pc' = "returned"
              /\ invocations' = invocations
              /\ commits' = 0
              /\ db' = db0
              /\ ~tx'.open
       /\ (pc = "returned" /\ result.tag = "Err") =>
              /\ response' = Err(result.error)
              /\ pc' = "done"
              /\ invocations' = invocations
              /\ commits' = 0
              /\ db' = db0]_vars

\* An abort of password-reset fulfilment after its DELETE had found a row.
C2_Witness ==
    /\ pc = "done"
    /\ req.handler = "pw_post"
    /\ user # NoUser
    /\ response.tag = "Err"
    /\ invocations = 1
    /\ db = db0

\* C3: when an attempt ends in Retry nothing of it is committed, and the
\* next attempt begins a new transaction on the committed state and invokes
\* the unit of work from its first statement with fresh locals.
C3_RetryStartsOver ==
    [][/\ (pc = "loop" /\ outcome.tag = "Retry") =>
              /\ pc' = "begin"
              /\ db' = db
              /\ db = db0
              /\ ~tx.open /\ ~sp.open
              /\ result' = NoResult
       /\ (pc = "begin" /\ retries > 0 /\ lastErr' = NoErr) =>
              /\ tx' = OpenTx(db)
              /\ ~sp'.open
              /\ pc' = FirstStatement(req.handler)
              /\ invocations' = invocations + 1
              /\ token' = NoToken
              /\ user' = NoUser
              /\ rerolls' = 0
              /\ return_value' = NoValue]_vars

\* A second attempt at its first statement, after a first one that ran up
\* to its commit.
C3_Witness ==
    /\ pc = "ev_select"
    /\ retries = 1
    /\ invocations = 2
    /\ tx = OpenTx(db0)
    /\ Len(mails) = 1

\* C4: the conversion of an error yields Retry iff the error is a database
\* error of sqlx with SQLSTATE 40001, and Abort wrapping the error otherwise.
C4_Classification ==
    (pc = "loop" /\ lastErr # NoErr) =>
        IF lastErr.kind = "Database" /\ lastErr.code = "40001"
        THEN outcome = Retry
        ELSE outcome = Abort(Internal(lastErr))

C4_Witness ==
    /\ pc = "loop"
    /\ lastErr = DatabaseError(UNIQUE_VIOLATION, "email_key")
    /\ outcome.tag = "Abort"

\* C5: when the unit of work returned success and the commit fails with
\* SQLSTATE 40001, the executor does not return: nothing is committed, the
\* value of the failed attempt is dropped and a new attempt is begun.
C5_CommitConflictRetries ==
    [][/\ (pc = "commit" /\ lastErr' = SerializationFailure) =>
              /\ outcome' = Retry
              /\ pc' = "loop"
              /\ db' = db
              /\ ~tx'.open
              /\ result' = NoResult
       /\ (pc = "loop" /\ return_value # NoValue
                       /\ lastErr = SerializationFailure) =>
              /\ pc' = "begin"
              /\ result' = NoResult
              /\ response' = NoResult
       /\ (pc = "begin") => return_value' = NoValue]_vars

C5_Witness ==
    /\ pc = "begin"
    /\ return_value # NoValue
    /\ lastErr = SerializationFailure
    /\ retries >= 1
    /\ result = NoResult

\* C6 as stated: every error that is not a serialization conflict, raised by
\* begin, by a statement of the unit of work or by commit, ends the attempt
\* with Abort wrapping that error.
C6_AsStated ==
    [][(InExecutor /\ lastErr' \notin {NoErr, SerializationFailure}) =>
           outcome' = Abort(Internal(lastErr'))]_vars

\* C6 amended: every error that is not a serialization conflict and is not
\* a violation of the loop table's primary key answered to the INSERT of a
\* savepoint loop, raised by begin, by a statement of the unit of work or by
\* commit, ends the invocation with Err wrapping that error; the unit of
\* work is not invoked again.
C6_OtherErrorsAbort ==
    [][/\ (/\ InExecutor
           /\ lastErr' \notin {NoErr, SerializationFailure}
           /\ ~(pc = "sp_insert" /\
                lastErr'.constraint = PkeyConstraint(req.handler))) =>
              /\ outcome' = Abort(Internal(lastErr'))
              /\ pc' = "loop"
       /\ (pc = "loop" /\ outcome.tag = "Abort" /\ lastErr # NoErr) =>
              /\ result' = Err(Internal(lastErr))
              /\ pc' = "returned"
              /\ invocations' = invocations]_vars

\* A commit answered by an I/O error.
C6_Witness ==
    /\ pc = "returned"
    /\ return_value # NoValue
    /\ result = Err(Internal(IoError))
    /\ attempts = 1
    /\ invocations = 1

\* C7: as long as every attempt of an invocation has reported a
\* serialization conflict, the executor has returned neither Ok nor Err,
\* nothing is committed, no value has reached the handler, and the executor
\* is about to begin another attempt.
C7_AlwaysConflictNeverReturns ==
    (req.handler \in ExecutorHandlers /\ attempts > 0 /\ retries = attempts) =>
        /\ pc = "begin"
        /\ result = NoResult
        /\ response = NoResult
        /\ cookies = <<>>
        /\ commits = 0
        /\ db = db0

C7_Witness ==
    /\ pc = "begin"
    /\ attempts = 2
    /\ retries = 2

\* C8: no handler returns an error that wraps a serialization failure
\* (SQLSTATE 40001) to its caller.
C8_ConflictNeverSurfaced ==
    response.tag = "Err" =>
        ~(/\ response.error.source.kind = "Database"
          /\ response.error.source.code = SERIALIZATION_FAILURE)

\* C9: every Retry the executor loop sees comes from a database error with
\* SQLSTATE 40001; no unit of work produces Retry otherwise.
C9_RetryOnlyFromConflict ==
    outcome.tag = "Retry" =>
        /\ pc = "loop"
        /\ lastErr.kind = "Database"
        /\ lastErr.code = SERIALIZATION_FAILURE

\* A conflict met inside the savepoint loop of sessions POST.
C9_Witness ==
    /\ pc = "loop"
    /\ outcome = Retry
    /\ req.handler = "sessions_post"
    /\ token # NoToken

\* The committed state a request that went through its DELETE and its
\* savepoint loop leaves: the stale rows gone, one row of the final token.
ExpectedAfterLoop ==
    IF req.handler = "ev_post"
    THEN [db0 EXCEPT !.unverified_emails =
             {r \in @ : ~(r.user_id = Null /\ r.email = req.email)} \cup
             {[token_hash |-> hash_without_salt(token), email |-> req.email,
               user_id |-> Null, code_hash |-> NullHash]}]
    ELSE [db0 EXCEPT !.password_resets =
             {r \in @ : r.user_id # user.id} \cup
             {[token_hash |-> hash_without_salt(token), user_id |-> user.id]}]

\* C10: when the only failures of a request of email-verification POST or
\* password-reset POST are primary-key collisions of the loop's INSERT,
\* however many, no error is surfaced, the single transaction commits, and
\* the committed state holds the effect of the DELETE before the loop once,
\* with exactly one inserted row.
C10_CollisionsRecovered ==
    (/\ pc = "done"
     /\ req.handler \in {"ev_post", "pr_post"}
     /\ token # NoToken
     /\ clean) =>
        /\ response = Ok(PostResponse(req.handler, req.email))
        /\ attempts = 1
        /\ invocations = 1
        /\ commits = 1
        /\ db = ExpectedAfterLoop

\* Two collisions or more, with a stale row deleted before the loop.
C10_Witness ==
    /\ pc = "done"
    /\ req.handler = "ev_post"
    /\ clean
    /\ rerolls >= 2
    /\ response = Ok(PostResponse(req.handler, req.email))
    /\ \E r \in db0.unverified_emails :
          r.email = req.email /\ r.user_id = Null /\ r \notin db.unverified_emails

\* The transaction's data after the DELETE that precedes the loop of
\* email-verification POST and password-reset POST, and before any insert.
AfterDelete ==
    IF req.handler = "ev_post"
    THEN [db0 EXCEPT !.unverified_emails =
             {r \in @ : ~(r.user_id = Null /\ r.email = req.email)}]
    ELSE [db0 EXCEPT !.password_resets = {r \in @ : r.user_id # user.id}]

\* C11: in email-verification POST and password-reset POST, after each
\* rollback to the savepoint the transaction holds the DELETE and nothing of
\* the failed insert attempts, and nothing is committed yet; when the insert
\* succeeds after three collisions and the transaction commits, the
\* committed state is the start state with the stale rows deleted and
\* exactly one row inserted, keyed by the fourth identifier.
C11_ThreeCollisions ==
    /\ (/\ pc = "sp_begin"
        /\ req.handler \in {"ev_post", "pr_post"}
        /\ rerolls > 0) =>
           /\ tx.data = AfterDelete
           /\ ~tx.failed
           /\ db = db0
    /\ (/\ pc = "done"
        /\ req.handler \in {"ev_post", "pr_post"}
        /\ rerolls = 3
        /\ commits = 1) =>
           /\ response = Ok(PostResponse(req.handler, req.email))
           /\ db = ExpectedAfterLoop
           /\ Cardinality(db[LoopTable(req.handler)]) =
                  Cardinality(AfterDelete[LoopTable(req.handler)]) + 1

\* Three collisions after a DELETE that removed a stale row, then a commit.
C11_Witness ==
    /\ pc = "done"
    /\ req.handler = "ev_post"
    /\ rerolls = 3
    /\ commits = 1
    /\ AfterDelete # db0
    /\ hash_without_salt(token) \notin
           {r.token_hash : r \in db0.unverified_emails}

\* C12: when the INSERT of a savepoint loop is answered by a violation of a
\* constraint that is not the primary key of the loop's table, the loop does
\* not reroll and does not insert again: the error leaves the unit of work
\* at once, wrapped in Abort (as the handler's error in users POST), the
\* transaction is dropped without a commit, and the executor returns that
\* error without invoking the unit of work again.
C12_OtherConstraintPropagates ==
    [][/\ (/\ pc = "sp_insert"
           /\ lastErr'.kind = "Database"
           /\ lastErr'.constraint \notin {"none", PkeyConstraint(req.handler)}) =>
              /\ rerolls' = rerolls
              /\ token' = token
              /\ user_id' = user_id
              /\ pc' \in {"loop", "done"}
              /\ ~tx'.open
              /\ db' = db
              /\ commits' = commits
              /\ IF req.handler \in ExecutorHandlers
                 THEN outcome' = Abort(Internal(lastErr'))
                 ELSE response' = Err(Internal(lastErr'))
       /\ (/\ pc = "loop"
           /\ lastErr.kind = "Database"
           /\ lastErr.constraint \notin {"none", PkeyConstraint(req.handler)}) =>
              /\ result' = Err(Internal(lastErr))
              /\ pc' = "returned"
              /\ invocations' = invocations
              /\ attempts' = attempts
              /\ db' = db]_vars

\* A duplicate email answered to the INSERT of email-verification POST, met
\* on the first insert attempt and returned by the handler.
C12_Witness ==
    /\ pc = "done"
    /\ req.handler = "ev_post"
    /\ lastErr = DatabaseError(UNIQUE_VIOLATION, "email_key")
    /\ response = Err(Internal(lastErr))
    /\ rerolls = 0
    /\ invocations = 1
    /\ commits = 0
    /\ db = db0

\* C14: whenever a mail of the request has been handed to the mailer, the
\* transaction of the request has committed and is no longer open.
C14_MailAfterCommit ==
    mails # <<>> => (commits >= 1 /\ ~tx.open)

\* C15: a request of email-verification POST or password-reset POST hands
\* at most one mail to the mailer, whatever the number of retries.
C15_AtMostOneMail ==
    req.handler \in {"ev_post", "pr_post"} => Len(mails) <= 1

\* A stored value is the SHA-256 digest of a token, or the Argon2 PHC string
\* of a secret of the class `secrets`.
IsTokenDigest(h) == \E t \in Tokens : h = <<"sha256", t>>
IsSaltedHash(h, secrets) == \E x \in secrets : h = <<"argon2", x>>

\* The rows of a database state store no secret but as the hash of its class.
StoresOnlyHashes(d) ==
    /\ \A u \in d.users : IsSaltedHash(u.password_hash, Passwords)
    /\ \A r \in d.unverified_emails :
          /\ IsTokenDigest(r.token_hash)
          /\ r.code_hash = NullHash \/ IsSaltedHash(r.code_hash, Codes)
    /\ \A r \in d.password_resets : IsTokenDigest(r.token_hash)
    /\ \A r \in d.sessions : IsTokenDigest(r.token_hash)

\* C16: in every committed state and in the data of every open transaction,
\* each token_hash is the unsalted SHA-256 digest of a token, each
\* password_hash the salted Argon2 hash of a password and each code_hash
\* NULL or the salted Argon2 hash of a short code, whichever handler wrote it.
C16_OnlyHashesStored ==
    /\ StoresOnlyHashes(db)
    /\ tx.open => StoresOnlyHashes(tx.data)

\* The verification-code handler has committed a code_hash, and the
\* response carries the code it is the hash of.
C16_Witness ==
    /\ pc = "done"
    /\ req.handler = "code_post"
    /\ response.tag = "Ok"
    /\ \E r \in db.unverified_emails :
          /\ r.code_hash = hash_with_salt(code)
          /\ r.token_hash = hash_without_salt(req.token)
          /\ response.value = CodeResponse(r.email, code)

\* The identifier the savepoint loop of the request inserts.
LoopId == IF req.handler = "users_post" THEN user_id ELSE token

\* C17: the identifier of a savepoint loop is rerolled only in the step in
\* which the INSERT using its current value was answered by the violation
\* of the table's primary key, and that INSERT left no row; once an INSERT
\* using it succeeded, it keeps its value in every step of that invocation
\* up to the handler's answer, and sessions POST answers with the value it
\* inserted.  (A new attempt of the executor starts with a new identifier.)
C17_RerollOnlyUnpersisted ==
    [][/\ (rerolls' # rerolls /\ rerolls' # 0) =>
              /\ rerolls' = rerolls + 1
              /\ pc = "sp_insert"
              /\ pc' = "sp_begin"
              /\ lastErr' = DatabaseError(UNIQUE_VIOLATION,
                                          PkeyConstraint(req.handler))
              /\ tx'.data = sp.data
       /\ (LoopId # NoToken /\ LoopId' # NoToken /\ LoopId' # LoopId) =>
              /\ rerolls' = rerolls + 1
              /\ pc = "sp_insert"
       /\ (pc \in {"sp_release", "u_insert_email", "u_commit", "commit",
                   "loop", "returned"}) =>
              /\ LoopId' = LoopId
              /\ rerolls' = rerolls
       /\ (pc = "returned" /\ req.handler = "sessions_post"
                           /\ result.tag = "Ok") =>
              /\ cookies' = <<TokenValue(token)>>
              /\ NewRow("sessions_post") \in db.sessions]_vars

\* Sessions POST answered after one reroll or more with the token whose
\* INSERT succeeded.
C17_Witness ==
    /\ pc = "done"
    /\ req.handler = "sessions_post"
    /\ rerolls >= 1
    /\ response.tag = "Ok"
    /\ cookies = <<TokenValue(token)>>
    /\ NewRow("sessions_post") \in db.sessions

\* The characters of a text are all of the base64url alphabet, its length
\* is that of an unpadded encoding, and the bits its last character holds
\* beyond the last whole byte are zero.
ValidBase64Url(str) ==
    /\ \A i \in 1..Len(str) : str[i] \in 0..63
    /\ Len(str) % 4 # 1
    /\ Len(str) % 4 = 2 => str[Len(str)] % 16 = 0
    /\ Len(str) % 4 = 3 => str[Len(str)] % 4 = 0

\* The number of whole bytes a text of that many characters holds.
ByteCount(str) == (Len(str) * 6) \div 8

\* C18: parsing the text form of an identifier x of N bytes as an N-byte
\* identifier returns x; a text that decodes to another number of bytes
\* than N gives the size error, and whatever is returned as an identifier
\* has N bytes and the parsed text as its text form.
C18_RoundTrip ==
    call.fn = "returned" =>
        /\ (call.id # <<>> /\ Len(call.id) = call.N) =>
               call.out = Ok(call.id)
        /\ (ValidBase64Url(call.str) /\ ByteCount(call.str) # call.N) =>
               /\ call.out.tag = "Err"
               /\ call.out.error[1] = "Size"
        /\ call.out.tag = "Ok" =>
               /\ Len(call.out.value) = call.N
               /\ to_string(call.out.value) = call.str

\* An identifier of three different bytes came back from its text form.
C18_Witness ==
    /\ call.fn = "returned"
    /\ call.N = 3
    /\ call.id = <<255, 1, 128>>
    /\ call.str = <<63, 48, 6, 0>>
    /\ call.out = Ok(call.id)

\* C19: a text that is not valid unpadded base64url gives Error::Base64,
\* whatever its length; a valid text that decodes to more or fewer bytes
\* than N gives Error::Size with expected = N and found = the number of
\* decoded bytes; the two errors are different values.
C19_TwoErrors ==
    call.fn = "returned" =>
        /\ ~ValidBase64Url(call.str) =>
               /\ call.out.tag = "Err"
               /\ call.out.error[1] = "Base64"
        /\ (ValidBase64Url(call.str) /\ ByteCount(call.str) # call.N) =>
               call.out = Err(Size(call.N, ByteCount(call.str)))
        /\ (ValidBase64Url(call.str) /\ ByteCount(call.str) = call.N) =>
               call.out.tag = "Ok"

\* A text with a character outside the alphabet whose length is also not
\* that of a 2-byte identifier: the decode error is reported.
C19_Witness ==
    /\ call.fn = "returned"
    /\ call.N = 2
    /\ call.id = <<>>
    /\ call.str = <<0, 65>>
    /\ call.out = Err(Base64(InvalidByte))

InsertsUser(p) == \A u \in ConcurrentDb.users : u.email # procs[p].email

\* C13: when the two concurrent requests have answered, each inserted a
\* user and neither met an error other than a violation of users_pkey,
\* both answered 200, their identifiers differ, the committed state holds
\* the row of each in addition to those it had, and if both had generated
\* the same identifier first, one of them rerolled.
C13_BothRowsPresent ==
    (/\ \A p \in ProcIds : procs[p].pc = "done"
     /\ \A p \in ProcIds : InsertsUser(p)
     /\ \A p \in ProcIds : ~procs[p].other_error) =>
        /\ \A p \in ProcIds :
              procs[p].response =
                 Ok(PostResponse("users_post", procs[p].email))
        /\ procs[1].user_id # procs[2].user_id
        /\ \A p \in ProcIds :
              [id |-> procs[p].user_id, email |-> NullEmail,
               password_hash |-> hash_password(procs[p].password)]
                  \in db.users
        /\ Cardinality(db.users) = Cardinality(ConcurrentDb.users) + 2
        /\ ConcurrentDb.users \subseteq db.users
        /\ procs[1].first_id = procs[2].first_id =>
               procs[1].rerolls + procs[2].rerolls >= 1

\* Both requests began on the same snapshot and generated the same free
\* identifier; the second to insert rerolled once and both rows are there.
C13_Witness ==
    /\ \A p \in ProcIds :
          /\ procs[p].pc = "done"
          /\ procs[p].response.tag = "Ok"
          /\ procs[p].snap = ConcurrentDb
          /\ procs[p].first_id = 2
    /\ procs[1].rerolls = 0
    /\ procs[2].rerolls = 1
    /\ {u.id : u \in db.users} = {1, 2, procs[2].user_id}
    /\ procs[2].user_id # 2

\* The digits and the uppercase letters without the letter O.
ShortCodeAlphabet ==
    ({"0", "1", "2", "3", "4", "5", "6", "7", "8", "9"} \cup
     {"A", "B", "C", "D", "E", "F", "G", "H", "I", "J", "K", "L", "M", "N",
      "O", "P", "Q", "R", "S", "T", "U", "V", "W", "X", "Y", "Z"}) \ {"O"}

\* The unverified-email rows the UPDATE of the verification-code handler
\* matches in the state d.
CodeRows(d) ==
    {r \in d.unverified_emails :
        r.token_hash = hash_without_salt(req.token) /\ r.user_id = Null}

\* C21: a code generate_short_code returned has exactly 6 characters, each
\* of the 35 digits and uppercase letters without O; the verification-code
\* handler writes it to the database only as its salted hash, in the
\* code_hash of the rows its UPDATE matched, hands it to no mail and no
\* cookie, and its response carries the code only if the UPDATE matched a
\* row, whose email it carries too; without a matched row it answers
\* ResourceNotFound.
C21_ShortCode ==
    /\ Cardinality(ShortCodeAlphabet) = 35
    /\ code # NoCode =>
          /\ req.handler = "code_post"
          /\ Len(code) = 6
          /\ \A i \in 1..Len(code) : code[i] \in ShortCodeAlphabet
    /\ req.handler = "code_post" =>
          /\ mails = <<>> /\ cookies = <<>>
          /\ \A d \in {db} \cup (IF tx.open THEN {tx.data} ELSE {}) :
                /\ d.users = db0.users
                /\ d.password_resets = db0.password_resets
                /\ d.sessions = db0.sessions
                /\ d.unverified_emails \in
                       {db0.unverified_emails,
                        {IF r \in CodeRows(db0)
                         THEN [r EXCEPT !.code_hash = hash_with_salt(code)]
                         ELSE r : r \in db0.unverified_emails}}
          /\ (pc = "done" /\ response.tag = "Ok") =>
                /\ commits = 1
                /\ \E r \in CodeRows(db0) :
                      /\ response.value = CodeResponse(r.email, code)
                      /\ [r EXCEPT !.code_hash = hash_with_salt(code)]
                             \in db.unverified_emails
          /\ (pc = "done" /\ response.tag = "Err") =>
                /\ response.value = NoValue
                /\ (CodeRows(db0) = {} /\ commits = 1) =>
                       response.error = ResourceNotFound

\* The handler answered with a code whose characters are the last of the
\* alphabet and, the stream wrapping around, its first ones; the matched
\* row holds the salted hash of that code.
C21_Witness ==
    /\ pc = "done"
    /\ req.handler = "code_post"
    /\ code = <<"Y", "Z", "0", "1", "2", "3">>
    /\ response = Ok(CodeResponse("e2", code))
    /\ [token_hash |-> hash_without_salt(1), email |-> "e2",
        user_id |-> Null, code_hash |-> hash_with_salt(code)]
           \in db.unverified_emails

\* C22: every open transaction of the pool runs at SERIALIZABLE isolation,
\* transactions are begun only on the initialized pool, and every
\* connection the pool holds idle, whether opened by `initialize` or later,
\* has serializable as its default transaction isolation.
C22_Serializable ==
    \A c \in ConnIds :
        /\ pool.conns[c].state = "in_transaction" =>
              /\ pool.conns[c].isolation = "serializable"
              /\ pool.phase = "serving"
        /\ pool.conns[c].state = "idle" =>
              pool.conns[c].default_transaction_isolation = "serializable"

\* Two transactions are open, one on the connection `initialize` opened
\* and one on a connection the pool opened later.
C22_Witness ==
    \E c, d \in ConnIds :
        /\ pool.conns[c].state = "in_transaction"
        /\ pool.conns[d].state = "in_transaction"
        /\ ~pool.conns[c].lazy
        /\ pool.conns[d].lazy
        /\ pool.conns[d].isolation = "serializable"

\* C23: when an executor invocation was cancelled before the commit of its
\* current attempt was issued, no transaction is open, no attempt of the
\* invocation committed, and the committed state is the one the request
\* started with; the handler returned nothing.
C23_CancelRollsBack ==
    pc = "cancelled" =>
        /\ ~tx.open
        /\ ~sp.open
        /\ commits = 0
        /\ db = db0
        /\ response = NoResult
        /\ cookies = <<>>

\* The password-reset fulfilment was cancelled right before the commit of
\* its second attempt, whose unit of work had deleted the reset row and
\* updated the password; the first attempt had ended in a conflict.
C23_Witness ==
    /\ pc = "cancelled"
    /\ req.handler = "pw_post"
    /\ retries = 1
    /\ attempts = 2
    /\ return_value = Unit
    /\ user.id = 1
    /\ [token_hash |-> hash_without_salt(1), user_id |-> 1]
           \in db.password_resets

\* C24: in a handler that runs its work through the executor, a
\* serialization failure answering the opening of the savepoint, the INSERT
\* inside it or its release leaves the collision loop without a reroll: the
\* closure returns Retry, the transaction is dropped with nothing committed,
\* the executor returns nothing yet, and its loop begins a new transaction
\* and invokes the unit of work again from its first statement.
C24_ConflictInSavepointRetries ==
    [][/\ (/\ pc \in {"sp_begin", "sp_insert", "sp_release"}
           /\ req.handler \in ExecutorHandlers
           /\ lastErr' = SerializationFailure) =>
              /\ pc' = "loop"
              /\ outcome' = Retry
              /\ rerolls' = rerolls
              /\ token' = token
              /\ ~tx'.open
              /\ ~sp'.open
              /\ db' = db
              /\ commits' = commits
              /\ result' = NoResult
       /\ (pc = "loop" /\ outcome = Retry) =>
              /\ pc' = "begin"
              /\ result' = NoResult
              /\ retries' = retries + 1
              /\ db' = db
       /\ (pc = "begin" /\ retries > 0 /\ pc' # "loop") =>
              /\ pc' = FirstStatement(req.handler)
              /\ tx' = OpenTx(db)
              /\ invocations' = invocations + 1
              /\ rerolls' = 0
              /\ token' = NoToken
      ]_vars

\* A serialization failure inside the savepoint loop, after a reroll, has
\* made the closure return Retry: the unit of work had not returned.
C24_Witness ==
    /\ pc = "loop"
    /\ outcome = Retry
    /\ lastErr = SerializationFailure
    /\ req.handler = "ev_post"
    /\ rerolls >= 1
    /\ return_value = NoValue
    /\ token # NoToken

\* C25: in an executor invocation at most one transaction commits, and the
\* committing attempt is the last one: after the commit no transaction is
\* open and no attempt is begun.  The invocation returns Ok(v) only after
\* exactly one commit, v being the value the unit of work of that attempt
\* returned (for sessions POST the token whose row the commit published),
\* and it returns Err only when nothing was committed, the committed state
\* being the one the request started with.
C25_AtMostOneCommit ==
    req.handler \in ExecutorHandlers =>
        /\ commits <= 1
        /\ commits = 1 =>
              /\ pc \in {"loop", "returned", "done"}
              /\ ~tx.open
              /\ attempts = retries + 1
              /\ pc = "loop" => outcome = TxOk(return_value)
              /\ pc # "loop" => result = Ok(return_value)
        /\ result.tag = "Ok" =>
              /\ commits = 1
              /\ result.value = return_value
              /\ req.handler = "sessions_post" =>
                    /\ result.value = TokenValue(token)
                    /\ [token_hash |-> hash_without_salt(token),
                        user_id |-> user.id] \in db.sessions \ db0.sessions
        /\ result.tag = "Err" =>
              /\ commits = 0
              /\ db = db0
        /\ commits = 0 => db = db0

\* sessions POST returned the token of its third attempt, the only one that
\* committed; the first two ended in a conflict.
C25_Witness ==
    /\ pc = "done"
    /\ req.handler = "sessions_post"
    /\ attempts = 3
    /\ retries = 2
    /\ commits = 1
    /\ result = Ok(TokenValue(token))
    /\ cookies = <<TokenValue(token)>>

\* C26 as stated: when the executor has returned, the unit of work was
\* invoked exactly once more than there were conflicts.
C26_AsStated ==
    (pc = "returned" /\ req.handler \in ExecutorHandlers) =>
        invocations = retries + 1

\* C26 amended: with finitely many conflicts and collisions an executor
\* invocation that was started returns and its handler answers; when it has
\* returned Ok or Err, it has begun exactly one transaction more than there
\* were conflicts, and the unit of work was invoked once for each of those
\* whose begin succeeded, so at most that many times.
C26_Terminates ==
    /\ (pc = "begin" /\ attempts = 0) ~>
           (pc = "done" /\ response.tag \in {"Ok", "Err"})
    /\ [](pc = "returned" =>
             /\ result.tag \in {"Ok", "Err"}
             /\ attempts = retries + 1
             /\ invocations <= retries + 1)
    /\ [][pc = "begin" =>
             /\ attempts' = attempts + 1
             /\ invocations' = IF tx'.open THEN invocations + 1
                               ELSE invocations]_vars

\* sessions POST has returned after two conflicts and a collision: three
\* transactions begun, three invocations of the unit of work.
C26_Witness ==
    /\ pc = "returned"
    /\ req.handler = "sessions_post"
    /\ retries = 2
    /\ attempts = 3
    /\ invocations = 3
    /\ rerolls >= 1
    /\ result.tag = "Ok"

\* The handlers whose savepoint loop inserts the hash of a token that is
\* delivered afterwards.
TokenHandlers == {"sessions_post", "pr_post", "ev_post"}

\* The rows of the loop's table, in the data d, keyed by the hash of the
\* request's current token.
RowsOfToken(d) ==
    {r \in d[LoopTable(req.handler)] :
        r.token_hash = hash_without_salt(token)}

\* C27: in sessions POST, password-reset POST and email-verification POST,
\* when the INSERT of the savepoint loop has succeeded, the transaction
\* holds exactly one row keyed by the hash of the current token, and that
\* key was not there when the savepoint was taken; when the attempt is past
\* the loop, the token it delivers (the value returned for the cookie, the
\* token of the mail it sent last) is that current token; and when the
\* request has answered after a commit, the committed state holds the row
\* of the delivered token.
C27_DeliveredTokenIsStored ==
    (req.handler \in TokenHandlers /\ token # NoToken) =>
        /\ pc = "sp_release" =>
              /\ Cardinality(RowsOfToken(tx.data)) = 1
              /\ sp.open /\ RowsOfToken(sp.data) = {}
        /\ pc = "commit" =>
              /\ Cardinality(RowsOfToken(tx.data)) = 1
              /\ req.handler = "sessions_post" =>
                    return_value = TokenValue(token)
              /\ req.handler # "sessions_post" =>
                    /\ mails # <<>>
                    /\ mails[Len(mails)].token = token
        /\ (pc = "done" /\ commits = 1 /\ response.tag = "Ok") =>
              /\ Cardinality(RowsOfToken(db)) = 1
              /\ req.handler = "sessions_post" =>
                    cookies = <<TokenValue(token)>>
              /\ req.handler # "sessions_post" =>
                    mails[Len(mails)].token = token

\* password-reset POST answered after its loop rerolled twice: the mail
\* carries the third token, whose hash the committed row holds, and not a
\* token of the start state.
C27_Witness ==
    /\ pc = "done"
    /\ req.handler = "pr_post"
    /\ rerolls = 2
    /\ commits = 1
    /\ mails = <<Mail("PasswordReset", req.email, token)>>
    /\ [token_hash |-> hash_without_salt(token), user_id |-> user.id]
           \in db.password_resets \ db0.password_resets

\* The committed password resets of user u.
ResetsOf(u) == {r \in db.password_resets : r.user_id = u}

\* The password-reset POST requests that committed a reset of user u.
ResetCommitters(u) ==
    {p \in ProcIds : /\ procs[p].handler = "pr_post"
                     /\ procs[p].commit_seq > 0
                     /\ procs[p].user_id = u}

\* C28: whatever the interleaving of concurrent password-reset POST
\* requests, the committed state holds at most one password_resets row per
\* user, and once a request committed a reset of the user that row is the
\* one inserted by the request that committed last.
C28_OneResetPerUser ==
    \A u \in {x.id : x \in db.users} :
        /\ Cardinality(ResetsOf(u)) <= 1
        /\ \A p \in ResetCommitters(u) :
              (\A q \in ResetCommitters(u) :
                  procs[q].commit_seq <= procs[p].commit_seq)
              => ResetsOf(u) =
                    {[token_hash |-> hash_without_salt(procs[p].inserted),
                      user_id |-> u]}

\* Two requests for the same user, who had no reset, both committed: the
\* second after a retry, its row replacing the row of the first.
C28_Witness ==
    /\ ResetCommitters(1) = ProcIds
    /\ SerialDb(FALSE).users = db.users
    /\ \E p \in ProcIds :
          /\ procs[p].commit_seq = 2
          /\ procs[p].retries > 0
          /\ procs[p].inserted # procs[3 - p].inserted
          /\ ResetsOf(1) =
                {[token_hash |-> hash_without_salt(procs[p].inserted),
                  user_id |-> 1]}

\* The committed pending verifications of `email` for no user.
UnverifiedOf(email) ==
    {r \in db.unverified_emails : r.user_id = Null /\ r.email = email}

\* The email-verification POST requests that committed a verification of
\* `email`.
VerificationCommitters(email) ==
    {p \in ProcIds : /\ procs[p].handler = "ev_post"
                     /\ procs[p].commit_seq > 0
                     /\ procs[p].inserted # NoToken
                     /\ procs[p].email = email}

\* C29: whatever the interleaving of concurrent email-verification POST
\* requests, the committed state holds at most one unverified_emails row
\* with user_id NULL per email; the stale row leaves the committed state in
\* the very commit that brings the new one, so once a request committed
\* there is exactly one, inserted by one of the requests.
C29_OneVerificationPerEmail ==
    \A email \in Emails :
        /\ Cardinality(UnverifiedOf(email)) <= 1
        /\ VerificationCommitters(email) # {} =>
              \E p \in VerificationCommitters(email) :
                 UnverifiedOf(email) =
                    {[token_hash |-> hash_without_salt(procs[p].inserted),
                      email |-> email, user_id |-> Null,
                      code_hash |-> NullHash]}

\* Two requests for the same email, which had a stale row, both committed
\* a row of a new token; the one that committed second had to retry.
C29_Witness ==
    /\ VerificationCommitters("e2") = ProcIds
    /\ SerialDb(TRUE).unverified_emails \cap db.unverified_emails = {}
    /\ Cardinality(UnverifiedOf("e2")) = 1
    /\ \E p \in ProcIds : procs[p].commit_seq = 2 /\ procs[p].retries > 0

\* The fulfilment requests that carry token t.
Fulfilments(t) ==
    {p \in ProcIds : procs[p].handler = "pw_post" /\ procs[p].req_token = t}

\* C30: of the concurrent fulfilment requests that carry one token at most
\* one is answered with success, and it has set the password_hash of the
\* user; after it the password_resets row of the token is gone; every
\* other request the database did not fail is answered with
\* ResourceNotFound and has committed nothing.
C30_TokenIsSingleUse ==
    \A t \in Tokens :
        LET succeeded == {p \in Fulfilments(t) : procs[p].response.tag = "Ok"}
        IN  /\ Cardinality(succeeded) <= 1
            /\ \A p \in succeeded :
                  /\ \E u \in db.users :
                        /\ u.id = procs[p].user_id
                        /\ u.password_hash = hash_with_salt(procs[p].password)
                  /\ \A r \in db.password_resets :
                        r.token_hash # hash_without_salt(t)
            /\ \A p \in Fulfilments(t) \ succeeded :
                  (procs[p].pc = "done" /\ ~procs[p].other_error)
                  => /\ procs[p].response = Err(ResourceNotFound)
                     /\ procs[p].commit_seq = 0

\* Two requests with the token of the pending reset: one succeeded, the
\* other, whose DELETE had begun before that commit, was retried and then
\* answered with ResourceNotFound.
C30_Witness ==
    /\ Fulfilments(1) = ProcIds
    /\ \E p \in ProcIds :
          /\ procs[p].response.tag = "Ok"
          /\ procs[3 - p].response = Err(ResourceNotFound)
          /\ procs[3 - p].retries > 0
          /\ procs[3 - p].begin_seq = 1
          /\ \E u \in db.users :
                u.id = 1 /\ u.password_hash = hash_with_salt(procs[p].password)

\* The request's email belongs to a user of the committed state the request
\* started with.
EmailOfUser == \E u \in db0.users : u.email = req.email

\* C31: once the CAPTCHA passed and nothing failed but key collisions,
\* email-verification POST answers 200 with the submitted email and
\* password-reset POST answers 200 with an empty body, whether or not the
\* email belongs to a user: the response is a function of the request
\* alone.
C31_SameResponse ==
    (/\ pc = "done"
     /\ req.handler \in {"ev_post", "pr_post"}
     /\ attempts > 0
     /\ clean) =>
        response = Ok(IF req.handler = "ev_post"
                      THEN <<"PostResponse", req.email>>
                      ELSE <<"PostResponse">>)

\* Email-verification POST for the email of a user, answered like a request
\* for a free email.
C31_Witness ==
    /\ pc = "done"
    /\ req.handler = "ev_post"
    /\ clean
    /\ EmailOfUser
    /\ mails = <<Mail("EmailTaken", req.email, NoToken)>>
    /\ response = Ok(<<"PostResponse", req.email>>)

\* The users the credentials of the request sign in.
SignedIn ==
    {u \in db0.users : /\ u.email = req.email
                       /\ verify_hash(req.password, u.password_hash)}

\* C32: sessions POST with an email of no user and sessions POST with the
\* email of a user and a password that does not verify are both answered
\* with UserCredentialsWrong when the database raises no error, after one
\* run of the unit of work; whatever the database raises, no sessions row
\* is inserted and no cookie is set.
C32_SameError ==
    (req.handler = "sessions_post" /\ SignedIn = {}) =>
        /\ db = db0
        /\ cookies = <<>>
        /\ commits = 0
        /\ response.tag # "Ok"
        /\ (pc = "done" /\ clean) =>
              /\ response = Err(ApiError("UserCredentialsWrong", NoErr))
              /\ attempts = 1
              /\ invocations = 1

\* The email of a user with a password that does not verify.
C32_Witness ==
    /\ pc = "done"
    /\ req.handler = "sessions_post"
    /\ EmailOfUser
    /\ SignedIn = {}
    /\ clean
    /\ invocations = 1
    /\ response = Err(ApiError("UserCredentialsWrong", NoErr))

\* C33: a cookie is set only by a sessions POST whose executor returned Ok:
\* in every state each cookie set carries a token whose hash is the
\* token_hash of a committed sessions row, the transaction of the request
\* has committed, and at most one cookie is set, whatever the number of
\* attempts.
C33_CookieAfterCommit ==
    /\ Len(cookies) <= 1
    /\ cookies # <<>> =>
          /\ req.handler = "sessions_post"
          /\ pc = "done"
          /\ result.tag = "Ok"
          /\ commits = 1
          /\ \A i \in 1..Len(cookies) :
                /\ cookies[i] = result.value
                /\ \E r \in db.sessions \ db0.sessions :
                      r.token_hash = hash_without_salt(cookies[i][2])

\* A cookie set by a request whose first attempt was retried.
C33_Witness ==
    /\ pc = "done"
    /\ req.handler = "sessions_post"
    /\ retries >= 1
    /\ Len(cookies) = 1
    /\ \E r \in db.sessions \ db0.sessions :
          r.token_hash = hash_without_salt(cookies[1][2])

\* The request takes the path that only notifies: email-verification POST
\* for the email of a user, password-reset POST for the email of no user.
NotificationOnly ==
    \/ req.handler = "ev_post" /\ EmailOfUser
    \/ req.handler = "pr_post" /\ ~EmailOfUser

\* C34: a request on a notification-only path changes no table: its
\* transaction holds the rows it began with at every step (no DELETE, no
\* INSERT) and the committed state stays the one the request started with;
\* when the database raises no error the transaction still commits and the
\* request is answered with success, after one notification mail.
C34_NotificationOnly ==
    NotificationOnly =>
        /\ db = db0
        /\ tx.open => tx.data = db0
        /\ token = NoToken
        /\ (pc = "done" /\ attempts > 0 /\ clean) =>
              /\ commits = 1
              /\ response.tag = "Ok"
              /\ Len(mails) = 1
              /\ mails[1].kind = IF req.handler = "ev_post"
                                 THEN "EmailTaken"
                                 ELSE "PasswordResetFailed"

\* Password-reset POST for the email of no user, committed and answered
\* with success, the password resets as they were.
C34_Witness ==
    /\ pc = "done"
    /\ req.handler = "pr_post"
    /\ ~EmailOfUser
    /\ commits = 1
    /\ response.tag = "Ok"
    /\ db.password_resets = db0.password_resets
    /\ db0.password_resets # {}

\* The calls of `initialize` that have ended.
Ended == {i \in InitIds : pool.calls[i] \in {"Ok", "Err", "panic"}}

Normalized(path) ==
    utf8_percent_encode(percent_decode_str(path), COMPONENT_IGNORING_SLASH)

\* The path decodes to well-formed UTF-8 without a null byte.
Decodable(path) ==
    /\ IsUtf8(percent_decode_str(path))
    /\ \A i \in 1..Len(percent_decode_str(path)) :
          percent_decode_str(path)[i] # 0

\* C36: the answer to a GET or HEAD request for a path other than "/" is
\* 400 without a Location when the path does not decode to UTF-8 without a
\* null byte; else, when the path differs from the normalized encoding of
\* its decoded path, a permanent redirect whose Location has that
\* normalized path and the query of the request; the request a client
\* makes for that Location has the query of the first request and is not
\* redirected again, the normalization of a normalized path being that
\* path.
C36_RedirectOnce ==
    (/\ call.fn = "handle"
     /\ call.method \in {"GET", "HEAD"}
     /\ call.path # <<47>>
     /\ call.response # NoResponse) =>
        /\ ~Decodable(call.path) =>
              call.response = HttpResponse("BAD_REQUEST", NoLocation)
        /\ (Decodable(call.path) /\ call.path # Normalized(call.path)) =>
              /\ call.response.status = "PERMANENT_REDIRECT"
              /\ UriPath(call.response.location) = Normalized(call.path)
              /\ UriQuery(call.response.location) = call.query
              /\ Normalized(Normalized(call.path)) = Normalized(call.path)
        /\ (Decodable(call.path) /\ call.path = Normalized(call.path)) =>
              call.response.location = NoLocation
        /\ call.hops >= 1 =>
              /\ call.hops = 1
              /\ call.response.status # "PERMANENT_REDIRECT"
              /\ call.response.location = NoLocation
              /\ call.query = call.asked.query
              /\ call.path = Normalized(call.asked.path)

\* A request with a "%" that encodes nothing and an encoded "A", and with a
\* query that holds a "?", was redirected, and the request for the
\* Location was served.
C36_Witness ==
    /\ call.fn = "handle"
    /\ call.hops = 1
    /\ call.response.status = "OK"
    /\ call.asked.path = <<47, 47, 37, 37, 52, 49>>
    /\ call.path = <<47, 47, 37, 50, 53, 65>>
    /\ call.query = Some(<<113, 63, 113>>)

====
